---- MODULE Spec2Model ----
(***************************************************************************)
(* Model of qubesmgmt/app.py: the VM collection cache (VMCollection) and   *)
(* the two transports of _do_qubesd_call (QubesLocal over the qubesd       *)
(* socket, QubesRemote over a qrexec-client-vm process), as run by the     *)
(* Python 3 interpreter.                                                   *)
(*                                                                         *)
(* Byte strings (bytes) and text strings (str) are sequences of numbers:   *)
(* byte values 0..255 and code points.  An optional value (a Python value  *)
(* that may be None) is a sequence of length 0 (None) or 1.                *)
(***************************************************************************)
EXTENDS Integers, Sequences, FiniteSets, TLC

\* ------------------------------------------------------------------------
\* Bounds of the model
\* ------------------------------------------------------------------------

\* number of top-level operations one client process performs
MaxOps == 3

\* domains of the system the qvm-device tool is run on
MaxDomains == 2

\* ------------------------------------------------------------------------
\* Bytes and text literals of the program
\* ------------------------------------------------------------------------

\* b'\0', the field terminator of the request
NUL == 0
\* b' ', the separator of the name and the property tokens of a VM record
SP == 32
\* b'=', the separator of a property token
EQ == 61
\* '+', the separator of the method and the argument in a service name
PLUS == 43
\* '\n' and '\r', the line boundaries bytes.splitlines() recognises
LF == 10
CR == 13
\* size of one recv()
BUF_SIZE == 4096

\* 'dom0'
Dom0 == <<100, 111, 109, 48>>
\* 'mgmt.vm.List'
MgmtVmList == <<109, 103, 109, 116, 46, 118, 109, 46, 76, 105, 115, 116>>
\* 'class'
ClassKey == <<99, 108, 97, 115, 115>>

None == <<>>
Some(x) == <<x>>
IsNone(o) == Len(o) = 0
Val(o) == o[1]

\* a Python value used as a dictionary key or compared with one: its type
\* (str or bytes) and its characters; in Python 3 a str never equals a bytes
Str(s) == [t |-> "str", s |-> s]
Bytes(s) == [t |-> "bytes", s |-> s]

\* ------------------------------------------------------------------------
\* Exceptions and results
\* ------------------------------------------------------------------------

\* an exception: its class and its constructor arguments (texts)
Exc(type, args) == [type |-> type, args |-> args]
NoExc == Exc("", <<>>)

\* the result of a function: a returned byte string or a raised exception
Returned(data) == [kind |-> "return", data |-> data, exc |-> NoExc]
Raised(e) == [kind |-> "raise", data |-> <<>>, exc |-> e]
NoResult == [kind |-> "none", data |-> <<>>, exc |-> NoExc]

\* ------------------------------------------------------------------------
\* bytes methods used by the program
\* ------------------------------------------------------------------------

\* position of the first element of s that is in set, 0 when there is none
FirstIndex(s, set) ==
    IF \E i \in 1..Len(s) : s[i] \in set
    THEN CHOOSE i \in 1..Len(s) :
             s[i] \in set /\ \A j \in 1..(i - 1) : s[j] \notin set
    ELSE 0

\* s[i:], 1-based
Tail_(s, i) == SubSeq(s, i, Len(s))

\* bytes.splitlines(): lines end at '\n', '\r' or '\r\n'; no line for the
\* empty remainder after the last line end
RECURSIVE splitlines(_)
splitlines(s) ==
    IF s = <<>> THEN <<>>
    ELSE LET i == FirstIndex(s, {LF, CR})
         IN IF i = 0 THEN <<s>>
            ELSE LET skip == IF s[i] = CR /\ i < Len(s) /\ s[i + 1] = LF
                             THEN 2 ELSE 1
                 IN <<SubSeq(s, 1, i - 1)>> \o splitlines(Tail_(s, i + skip))

\* bytes.split(sep, 1): at most one split, at the first sep
split1(s, sep) ==
    LET i == FirstIndex(s, {sep})
    IN IF i = 0 THEN <<s>>
       ELSE <<SubSeq(s, 1, i - 1), Tail_(s, i + 1)>>

\* bytes.split(sep): a split at every sep, empty pieces kept
RECURSIVE split(_, _)
split(s, sep) ==
    LET i == FirstIndex(s, {sep})
    IN IF i = 0 THEN <<s>>
       ELSE <<SubSeq(s, 1, i - 1)>> \o split(Tail_(s, i + 1), sep)

\* dict(pairs): fails (ValueError) unless every element has length 2; a
\* later pair replaces an earlier one with the same key
DictOk(pairs) == \A i \in 1..Len(pairs) : Len(pairs[i]) = 2
Dict(pairs) ==
    [k \in {pairs[i][1] : i \in 1..Len(pairs)} |->
        LET last == CHOOSE i \in 1..Len(pairs) :
                        /\ pairs[i][1] = k
                        /\ \A j \in (i + 1)..Len(pairs) : pairs[j][1] # k
        IN pairs[last][2]]

\* d[key] = value on a dict d
DictSet(d, key, value) ==
    [k \in DOMAIN d \cup {key} |-> IF k = key THEN value ELSE d[k]]

\* key in d, for a dict whose keys are all bytes
DictHas(d, key) == key.t = "bytes" /\ key.s \in DOMAIN d

\* str.encode('ascii'): the code points as bytes; UnicodeEncodeError when
\* a code point is not ASCII
AsciiOk(text) == \A i \in 1..Len(text) : text[i] < 128
AsciiEncode(text) == text

\* bytes.decode(): UTF-8, strict.  One-byte (0x00..0x7F) and two-byte
\* (0xC2..0xDF, 0x80..0xBF) forms; for byte strings with no byte in
\* 0xE0..0xF4 every other byte is an error (UnicodeDecodeError)
RECURSIVE Utf8Ok(_)
Utf8Ok(b) ==
    IF b = <<>> THEN TRUE
    ELSE IF b[1] < 128 THEN Utf8Ok(Tail_(b, 2))
    ELSE IF b[1] \in 194..223 /\ Len(b) >= 2 /\ b[2] \in 128..191
         THEN Utf8Ok(Tail_(b, 3))
    ELSE FALSE

RECURSIVE Utf8Decode(_)
Utf8Decode(b) ==
    IF b = <<>> THEN <<>>
    ELSE IF b[1] < 128 THEN <<b[1]>> \o Utf8Decode(Tail_(b, 2))
    ELSE <<(b[1] - 192) * 64 + (b[2] - 128)>> \o Utf8Decode(Tail_(b, 3))

\* ------------------------------------------------------------------------
\* VMCollection.refresh_cache: the list response
\* ------------------------------------------------------------------------

EmptyDict == [k \in {} |-> <<>>]

\* the loop over vm_list_data.splitlines(), from line i on with new_vm_list
\* = acc: the map built, and whether the loop ran to its end (ok) or a
\* record raised ValueError (a record without ' ', a token without '=')
RECURSIVE RefreshLoop(_, _, _)
RefreshLoop(lines, i, acc) ==
    IF i > Len(lines) THEN [ok |-> TRUE, map |-> acc]
    ELSE LET parts == split1(lines[i], SP)
         IN IF Len(parts) # 2 THEN [ok |-> FALSE, map |-> acc]
            ELSE LET vm_name == parts[1]
                     props == split(parts[2], SP)
                     pairs == [j \in 1..Len(props) |-> split1(props[j], EQ)]
                 IN IF ~DictOk(pairs) THEN [ok |-> FALSE, map |-> acc]
                    ELSE RefreshLoop(lines, i + 1,
                                     DictSet(acc, vm_name, Dict(pairs)))

\* new_vm_list after the loop over the whole list response
ParseVmList(vm_list_data) == RefreshLoop(splitlines(vm_list_data), 1, EmptyDict)

\* NeedsCall with the force flag ignored: a populated cache is never
\* refreshed
NeedsCall_IgnoreForce(force, cache) == IsNone(cache)

\* NeedsCall without the early return: every refresh makes the list call
NeedsCall_Always(force, cache) == TRUE

\* the early return of refresh_cache: a list call is made when the refresh
\* is forced or the cache is not populated
NeedsCall(force, cache) == force \/ IsNone(cache)

\* CacheAfterParse with the cache dropped when the list cannot be parsed
CacheAfterParse_Invalidate(old, parsed) ==
    IF parsed.ok THEN Some(parsed.map) ELSE None

\* CacheAfterParse that updates the old map with the new records instead
\* of replacing it
CacheAfterParse_Update(old, parsed) ==
    IF ~parsed.ok THEN old
    ELSE IF IsNone(old) THEN Some(parsed.map)
    ELSE Some([k \in DOMAIN Val(old) \cup DOMAIN parsed.map |->
                  IF k \in DOMAIN parsed.map THEN parsed.map[k]
                  ELSE Val(old)[k]])

\* CacheAfterParse that builds the map in self._vm_list itself: a loop that
\* raises leaves what it has built so far
CacheAfterParse_InPlace(old, parsed) == Some(parsed.map)

\* self._vm_list after the list response was handled: assigned once, after
\* the loop, and not at all when the loop raised
CacheAfterParse(old, parsed) ==
    IF parsed.ok THEN Some(parsed.map) ELSE old

\* ------------------------------------------------------------------------
\* _parse_qubesd_response: the response decoder
\* ------------------------------------------------------------------------

\* b'0\0', the success marker, and b'2\0', the marker of an error envelope
OkMarker == <<48, NUL>>
ErrMarker == <<50, NUL>>

StartsWith(buf, prefix) ==
    Len(buf) >= Len(prefix) /\ SubSeq(buf, 1, Len(prefix)) = prefix

\* a response that starts with the success marker decodes to the bytes
\* after it; an error envelope decodes to a structured error of its kind
\* and message, split at the first NUL or newline; anything else is a
\* malformed response
ParseQubesdResponse(buf) ==
    IF StartsWith(buf, OkMarker) THEN Returned(Tail_(buf, 3))
    ELSE IF StartsWith(buf, ErrMarker)
    THEN LET body == Tail_(buf, 3)
             i == FirstIndex(body, {NUL, LF})
         IN IF i <= 1 THEN Raised(Exc("MalformedResponse", <<>>))
            ELSE Raised(Exc("QubesException",
                            <<SubSeq(body, 1, i - 1), Tail_(body, i + 1)>>))
    ELSE Raised(Exc("MalformedResponse", <<>>))

\* ------------------------------------------------------------------------
\* Inputs: names, responses of the daemon, outputs of the proxy process
\* ------------------------------------------------------------------------

\* 'vm1'
Vm1 == <<118, 109, 49>>
\* 'vm2'
Vm2 == <<118, 109, 50>>
\* 'vm3'
Vm3 == <<118, 109, 51>>
\* 'AppVM'
AppVM == <<65, 112, 112, 86, 77>>
\* 'NotImplementedError'
NotImplementedErrorText == <<78, 111, 116, 73, 109, 112, 108, 101, 109, 101, 110, 116, 101, 100, 69, 114, 114, 111, 114>>
\* 'no such method'
NoSuchMethod == <<110, 111, 32, 115, 117, 99, 104, 32, 109, 101, 116, 104, 111, 100>>
\* 'permission denied'
PermissionDenied == <<112, 101, 114, 109, 105, 115, 115, 105, 111, 110, 32, 100, 101, 110, 105, 101, 100>>
\* 'Service call error: %s'
ServiceCallErrorFmt == <<83, 101, 114, 118, 105, 99, 101, 32, 99, 97, 108, 108, 32, 101, 114, 114, 111, 114, 58, 32, 37, 115>>
\* 'qrexec-client-vm'
QrexecClientVm == <<113, 114, 101, 120, 101, 99, 45, 99, 108, 105, 101, 110, 116, 45, 118, 109>>

\* one record of a list response: name, ' ', then the tokens joined by ' '
Prop(key, value) == key \o <<EQ>> \o value
Record2(name, t1, t2) == name \o <<SP>> \o t1 \o <<SP>> \o t2 \o <<LF>>
Record1(name, t1) == name \o <<SP>> \o t1 \o <<LF>>

\* "vm1 class=AppVM state=running\nvm2 class=TemplateVM state=halted\n"
ListTwo ==
    LET TemplateVM == <<84, 101, 109, 112, 108, 97, 116, 101, 86, 77>>
        StateKey == <<115, 116, 97, 116, 101>>
        Running == <<114, 117, 110, 110, 105, 110, 103>>
        Halted == <<104, 97, 108, 116, 101, 100>>
    IN Record2(Vm1, Prop(ClassKey, AppVM), Prop(StateKey, Running))
       \o Record2(Vm2, Prop(ClassKey, TemplateVM), Prop(StateKey, Halted))
\* "vm3 class=AppVM\n"
ListOne == Record1(Vm3, Prop(ClassKey, AppVM))
\* "vm1 class=AppVM\nvm2\n": the second record has a name and no token
ListNoProps == Record1(Vm1, Prop(ClassKey, AppVM)) \o Vm2 \o <<LF>>
\* "vm1 class=AppVM\nvm2 class\n": a token of the second record has no '='
ListNoEq == Record1(Vm1, Prop(ClassKey, AppVM)) \o Record1(Vm2, ClassKey)

\* the list payloads a daemon answers with; the last two hold a record
\* that is not "name SPACE key=value ..."
MalformedLists == {ListNoProps, ListNoEq}
ListBodies == {ListTwo, ListOne, <<>>, ListNoProps, ListNoEq}

\* "2\0NotImplementedError\0no such method"
ErrResponse == ErrMarker \o NotImplementedErrorText \o <<NUL>> \o NoSuchMethod

\* the raw responses: a success envelope around each list payload, an error
\* envelope, an empty response, and responses cut after the first byte of
\* the success marker and after the marker of an error envelope
Responses ==
    {OkMarker \o b : b \in ListBodies} \cup {ErrResponse, <<>>, <<48>>, ErrMarker}

\* what the proxy process writes to its error stream: nothing, an ASCII
\* text, the UTF-8 bytes of U+00E9, a byte string that is not UTF-8
Stderrs == {<<>>, PermissionDenied, <<195, 169>>, <<255>>}
ReturnCodes == {0, 1}

\* the arguments of the calls made by the users of _do_qubesd_call
Dests == {Dom0, Vm1}
Methods ==
    {MgmtVmList,
     \* 'mgmt.vm.Start'
     <<109, 103, 109, 116, 46, 118, 109, 46, 83, 116, 97, 114, 116>>}
\* no argument, '', 'class', and a text with a non-ASCII character
Args == {None, Some(<<>>), Some(ClassKey), Some(<<233>>)}
Payloads == {None, Some(AppVM)}

\* the names looked up: b'vm1', b'vm3' and the text 'vm1'
Items == {Bytes(Vm1), Bytes(Vm3), Str(Vm1)}
NoItem == [t |-> "none", s |-> <<>>]

\* ------------------------------------------------------------------------
\* State
\* ------------------------------------------------------------------------

VARIABLES
    variant,      \* class of the application object: QubesLocal or QubesRemote
    vm_list,      \* VMCollection._vm_list: None or the map name -> properties
    pc,           \* position of the process: idle, in a step of a call, or
                  \* "ret" when _do_qubesd_call hands its result to its caller
    op,           \* the operation in progress (or the last one): its name,
                  \* its arguments, and what it began with: _vm_list, the
                  \* counts of list calls, of connects and of processes
                  \* started, and whether it directly follows
                  \* a refresh_cache(force=True) that returned
    nops,         \* operations begun so far
    outcome,      \* what the last finished operation returned or raised
    call,         \* arguments of the _do_qubesd_call in progress
    callres,      \* its result
    sock,         \* client_socket of the call: "none", "unconnected" (made,
                  \* connect failed) or "connected"
    open_socks,   \* sockets created by this process and not closed yet
    connects,     \* connect() calls made so far
    written,      \* bytes sent on client_socket
    field,        \* index of the next request field to send (1..4)
    chunk,        \* what the recv() of the call returned, None before it
    inbound,      \* all the daemon sends on the connection before it closes
                  \* it, None until the call receives
    proc,         \* the proxy process of the call: state, argv, stdin
    spawned,      \* proxy processes started so far
    live_procs,   \* proxy processes started and not waited for
    comm,         \* (stdout, stderr) and returncode of communicate()
    decoded,      \* the buffer the call handed to the decoder, None if none
    list_calls,   \* list calls made by refresh_cache so far
    list_fails,   \* those of them that did not populate the cache
    forced,       \* whether refresh_cache(force=True) was ever called
    last_list     \* the list payload of the latest assignment to _vm_list

\* the state of one run of the qvm-device tool
VARIABLES
    dpc,          \* where the command is: "idle" before it starts;
                  \* "selected", "exposed", "result", "dedicated", "print"
                  \* in list_devices; "attach", "assign" in attach_device;
                  \* "done" when the command has returned or raised
    args,         \* the parsed arguments of the command: args of main
                  \* after parse_args, args of a subcommand function
    dqueue,       \* the iterations the loop in progress has still to make
    devices,      \* the set devices of list_devices
    result,       \* result of list_devices: for each device, the
                  \* frontends of its Line
    dlog,         \* the operations issued on domains so far, in order
    device_assignment,
                  \* device_assignment of attach_device, None before it is
                  \* made
    dresult,      \* what the command returned or raised
    printed,      \* the table print_table has printed, None before
    mpc,          \* where main is: "idle" before it is called, "list_classes"
                  \* before the device classes are asked for, "parse" before
                  \* parse_args, "func" while args.func(args) runs,
                  \* "returned" or "raised" when main has ended
    sys_argv,     \* sys.argv: the program and the words after it
    main_args,    \* the args parameter of main, None when it is not given
    parse_called, \* whether parse_args was called
    classes,      \* the device classes main has printed, None before
    error,        \* what parser.print_error has printed, None before
    returned,     \* the value main returned, None before
    escaped       \* the exception that left main, NoExc when none did

appVars == <<variant, vm_list, pc, op, nops, outcome, call, callres, sock,
             open_socks, connects, written, field, chunk, inbound, proc,
             spawned, live_procs, comm, decoded, list_calls, list_fails,
             forced, last_list>>

mainVars == <<mpc, sys_argv, main_args, parse_called, classes, error, returned,
              escaped>>

devVars == <<dpc, args, dqueue, devices, result, dlog, device_assignment,
             dresult, printed, mainVars>>

vars == <<appVars, devVars>>

cacheVars == <<vm_list, last_list>>
countVars == <<list_calls, list_fails, forced>>
localVars == <<sock, open_socks, connects, written, field, chunk, inbound>>
remoteVars == <<proc, spawned, live_procs, comm, decoded>>

\* no command has been given
NoArgs == [func |-> "", devclass |-> <<>>, domains |-> <<>>, device |-> <<>>,
           option |-> None, ro |-> FALSE, required |-> FALSE]

NoCall == [dest |-> <<>>, method |-> <<>>, arg |-> None, payload |-> None]
NoProc == [state |-> "none", argv |-> <<>>, stdin |-> <<>>]
NoComm == [stdout |-> <<>>, stderr |-> <<>>, returncode |-> 0]
NoOp == [name |-> "", force |-> FALSE, item |-> NoItem, before |-> None,
         calls0 |-> 0, fails0 |-> 0, connects0 |-> 0, spawned0 |-> 0,
         after_forced |-> FALSE]

\* the record of an operation that begins now
NewOp(name, force, item) ==
    [name |-> name, force |-> force, item |-> item, before |-> vm_list,
     calls0 |-> list_calls, fails0 |-> list_fails,
     connects0 |-> connects, spawned0 |-> spawned,
     after_forced |-> (op.name = "refresh_cache" /\ op.force
                       /\ outcome.kind = "return")]

\* what an operation of the collection gives its caller
Outcome(kind, exc, data, found, names, vms) ==
    [kind |-> kind, exc |-> exc, data |-> data, found |-> found,
     names |-> names, vms |-> vms]
NoOutcome == Outcome("none", NoExc, <<>>, FALSE, {}, {})
OutRaise(e) == Outcome("raise", e, <<>>, FALSE, {}, {})
OutReturn(data, found, names, vms) ==
    Outcome("return", NoExc, data, found, names, vms)

\* qubesmgmt.vm.QubesVM(app, name, klass)
QubesVM(name, klass) == [name |-> name, klass |-> klass]

Init ==
    /\ variant \in {"QubesLocal", "QubesRemote"}
    /\ vm_list = None
    /\ pc = "idle"
    /\ op = NoOp
    /\ nops = 0
    /\ outcome = NoOutcome
    /\ call = NoCall
    /\ callres = NoResult
    /\ sock = "none"
    /\ open_socks = 0
    /\ connects = 0
    /\ written = <<>>
    /\ field = 1
    /\ chunk = None
    /\ inbound = None
    /\ proc = NoProc
    /\ spawned = 0
    /\ live_procs = 0
    /\ comm = NoComm
    /\ decoded = None
    /\ list_calls = 0
    /\ list_fails = 0
    /\ forced = FALSE
    /\ last_list = None
    /\ dpc = "idle"
    /\ args = NoArgs
    /\ dqueue = <<>>
    /\ devices = {}
    /\ result = <<>>
    /\ dlog = <<>>
    /\ device_assignment = None
    /\ dresult = NoResult
    /\ printed = None
    /\ mpc = "idle"
    /\ sys_argv = <<>>
    /\ main_args = None
    /\ parse_called = FALSE
    /\ classes = None
    /\ error = None
    /\ returned = None
    /\ escaped = NoExc

\* ------------------------------------------------------------------------
\* VMCollection: the read operations on a populated cache
\* ------------------------------------------------------------------------

\* __contains__ after its refresh: item in self._vm_list
Contains(map, item) == DictHas(map, item)

\* __getitem__ after the refresh of its membership test: KeyError(item)
\* for an absent item, else a QubesVM of the 'class' property, looked up
\* with the text key 'class'
GetItem(map, item) ==
    IF ~Contains(map, item) THEN OutRaise(Exc("KeyError", <<item.s>>))
    ELSE IF ~DictHas(map[item.s], Str(ClassKey))
         THEN OutRaise(Exc("KeyError", <<ClassKey>>))
         ELSE OutReturn(<<>>, FALSE, {},
                        {QubesVM(item.s, map[item.s][ClassKey])})

\* __iter__ run to its end: self[vm] for every key of the map; the first
\* lookup that raises ends the iteration
IterAll(map) ==
    LET lookups == {GetItem(map, Bytes(k)) : k \in DOMAIN map}
    IN IF \E r \in lookups : r.kind = "raise"
       THEN CHOOSE r \in lookups : r.kind = "raise"
       ELSE OutReturn(<<>>, FALSE, {}, UNION {r.vms : r \in lookups})

\* the part of an operation that follows its refresh_cache()
ReadResult(name, item, map) ==
    CASE name = "refresh_cache" -> OutReturn(<<>>, FALSE, {}, {})
      [] name = "__contains__" ->
             OutReturn(<<>>, Contains(map, item), {}, {})
      [] name = "__getitem__" -> GetItem(map, item)
      [] name = "__iter__" -> IterAll(map)
      [] name = "keys" -> OutReturn(<<>>, FALSE, DOMAIN map, {})

\* ------------------------------------------------------------------------
\* Entering and leaving _do_qubesd_call
\* ------------------------------------------------------------------------

\* the first step of _do_qubesd_call in each class
EntryPc == IF variant = "QubesLocal" THEN "connect" ELSE "popen"

\* a call begins: its arguments are bound, its locals are fresh
EnterCall(dest, method, arg, payload) ==
    /\ call' = [dest |-> dest, method |-> method, arg |-> arg,
                payload |-> payload]
    /\ pc' = EntryPc
    /\ callres' = NoResult
    /\ sock' = "none"
    /\ written' = <<>>
    /\ field' = 1
    /\ chunk' = None
    /\ inbound' = None
    /\ proc' = NoProc
    /\ comm' = NoComm
    /\ decoded' = None
    /\ UNCHANGED <<open_socks, connects, spawned, live_procs>>

\* the call is over and its caller goes on: the frame of the call is gone
LeaveCall ==
    /\ call' = NoCall
    /\ callres' = NoResult
    /\ sock' = "none"
    /\ written' = <<>>
    /\ field' = 1
    /\ chunk' = None
    /\ inbound' = None
    /\ proc' = NoProc
    /\ comm' = NoComm
    /\ decoded' = None
    /\ UNCHANGED <<open_socks, connects, spawned, live_procs>>

\* ------------------------------------------------------------------------
\* VMCollection operations
\* ------------------------------------------------------------------------

\* an operation that begins with refresh_cache(force): either the cache
\* is used as it is and the operation ends, or the list call is made
BeginRead(name, force, item) ==
    /\ pc = "idle"
    /\ nops < MaxOps
    /\ nops' = nops + 1
    /\ forced' = (forced \/ force)
    /\ op' = NewOp(name, force, item)
    /\ UNCHANGED <<devVars, variant, cacheVars, list_fails>>
    /\ IF NeedsCall(force, vm_list)
       THEN /\ list_calls' = list_calls + 1
            /\ outcome' = NoOutcome
            /\ EnterCall(Dom0, MgmtVmList, None, None)
       ELSE /\ outcome' = ReadResult(name, item, Val(vm_list))
            /\ UNCHANGED <<pc, call, callres, list_calls, localVars,
                           remoteVars>>

\* VMCollection.refresh_cache(force)
RefreshCache(force) == BeginRead("refresh_cache", force, NoItem)

\* item in VMCollection
OpContains(item) == BeginRead("__contains__", FALSE, item)

\* VMCollection[item]
OpGetItem(item) == BeginRead("__getitem__", FALSE, item)

\* list(VMCollection): the iterator run to its end
OpIter == BeginRead("__iter__", FALSE, NoItem)

\* VMCollection.keys()
OpKeys == BeginRead("keys", FALSE, NoItem)

\* the list call of a refresh is over: the rest of refresh_cache and of
\* the operation that called it
RefreshResume ==
    /\ pc = "ret"
    /\ op.name # "call"
    /\ pc' = "idle"
    /\ LeaveCall
    /\ UNCHANGED <<devVars, variant, op, nops, list_calls, forced>>
    /\ IF callres.kind = "raise"
       THEN /\ outcome' = OutRaise(callres.exc)
            /\ list_fails' = list_fails + 1
            /\ UNCHANGED cacheVars
       ELSE LET parsed == ParseVmList(callres.data)
                cache == CacheAfterParse(vm_list, parsed)
            IN /\ vm_list' = cache
               /\ IF parsed.ok
                  THEN /\ outcome' = ReadResult(op.name, op.item, Val(cache))
                       /\ last_list' = Some(callres.data)
                       /\ UNCHANGED list_fails
                  ELSE /\ outcome' = OutRaise(Exc("ValueError", <<>>))
                       /\ list_fails' = list_fails + 1
                       /\ UNCHANGED last_list

\* a user of the application object calls _do_qubesd_call itself
DoQubesdCall(dest, method, arg, payload) ==
    /\ pc = "idle"
    /\ nops < MaxOps
    /\ nops' = nops + 1
    /\ op' = NewOp("call", FALSE, NoItem)
    /\ outcome' = NoOutcome
    /\ EnterCall(dest, method, arg, payload)
    /\ UNCHANGED <<devVars, variant, cacheVars, countVars>>

\* and gets its result
CallReturn ==
    /\ pc = "ret"
    /\ op.name = "call"
    /\ pc' = "idle"
    /\ outcome' = IF callres.kind = "raise" THEN OutRaise(callres.exc)
                  ELSE OutReturn(callres.data, FALSE, {}, {})
    /\ LeaveCall
    /\ UNCHANGED <<devVars, variant, op, nops, cacheVars, countVars>>

\* ------------------------------------------------------------------------
\* QubesLocal._do_qubesd_call
\* ------------------------------------------------------------------------

\* the call ends with result r
EndCall(r) ==
    /\ callres' = r
    /\ pc' = "ret"

\* the tuple ('dom0', method, dest, arg) the request is written from
CallArgs(c) == <<Some(Dom0), Some(c.method), Some(c.dest), c.arg>>

\* ConnectAttempts with a second connect() after one that failed
ConnectAttempts_Retry(r, open) ==
    CASE r = "socket failed" -> 0
      [] r = "connect failed" -> 2
      [] r = "ok" -> 1

\* ConnectAttempts with a connection kept from an earlier call
ConnectAttempts_Reuse(r, open) ==
    IF r = "socket failed" \/ open > 0 THEN 0 ELSE 1

\* the number of connect() calls of one _do_qubesd_call: none when
\* socket.socket() fails, else one, whether it succeeds or not, and whatever
\* sockets earlier calls left open
ConnectAttempts(r, open) == IF r = "socket failed" THEN 0 ELSE 1

\* socket.socket(), then connect(QUBESD_SOCK), one call each step: an
\* IOError of either is raised again as it is; the socket a failed
\* connect leaves is not closed
LocalConnect ==
    /\ pc = "connect"
    /\ \/ /\ sock = "none"
          /\ \/ /\ sock' = "unconnected"
                /\ open_socks' = open_socks + 1
                /\ UNCHANGED <<connects, pc, callres>>
             \/ /\ connects' =
                       connects + ConnectAttempts("socket failed", open_socks)
                /\ EndCall(Raised(Exc("IOError", <<>>)))
                /\ UNCHANGED <<sock, open_socks>>
       \/ /\ sock = "unconnected"
          /\ \E r \in {"ok", "connect failed"} :
                /\ connects' = connects + ConnectAttempts(r, open_socks - 1)
                /\ IF r = "ok"
                   THEN sock' = "connected" /\ pc' = "send"
                        /\ UNCHANGED callres
                   ELSE EndCall(Raised(Exc("IOError", <<>>)))
                        /\ UNCHANGED sock
          /\ UNCHANGED open_socks
    /\ UNCHANGED <<devVars, variant, op, nops, outcome, call, written, field, chunk,
                   inbound, cacheVars, countVars, remoteVars>>

\* one round of the loop over the four fields, one sendall each step:
\* call_arg.encode('ascii') (AttributeError for None, UnicodeEncodeError
\* for a non-ASCII text) and sendall of the bytes, then sendall of b'\0';
\* a sendall that fails has sent some part of its bytes, not all
LocalSendField ==
    /\ \/ /\ pc = "send"
          /\ LET call_arg == CallArgs(call)[field]
             IN IF IsNone(call_arg)
                THEN EndCall(Raised(Exc("AttributeError", <<>>)))
                     /\ UNCHANGED written
                ELSE IF ~AsciiOk(Val(call_arg))
                THEN EndCall(Raised(Exc("UnicodeEncodeError", <<>>)))
                     /\ UNCHANGED written
                ELSE LET bytes == AsciiEncode(Val(call_arg))
                     IN \/ /\ written' = written \o bytes
                           /\ pc' = "nul"
                           /\ UNCHANGED callres
                        \/ \E k \in 0..(Len(bytes) - 1) \cup {0} :
                           /\ written' = written \o SubSeq(bytes, 1, k)
                           /\ EndCall(Raised(Exc("IOError", <<>>)))
          /\ UNCHANGED field
       \/ /\ pc = "nul"
          /\ \/ /\ written' = written \o <<NUL>>
                /\ field' = field + 1
                /\ pc' = IF field = 4 THEN "payload" ELSE "send"
                /\ UNCHANGED callres
             \/ /\ EndCall(Raised(Exc("IOError", <<>>)))
                /\ UNCHANGED <<written, field>>
    /\ UNCHANGED <<devVars, variant, op, nops, outcome, call, sock, open_socks,
                   connects, chunk, inbound, cacheVars, countVars,
                   remoteVars>>

\* sendall(payload) when there is a payload
LocalSendPayload ==
    /\ pc = "payload"
    /\ IF IsNone(call.payload)
       THEN pc' = "recv" /\ UNCHANGED <<written, callres>>
       ELSE \/ /\ written' = written \o Val(call.payload)
               /\ pc' = "recv"
               /\ UNCHANGED callres
            \/ \E k \in 0..(Len(Val(call.payload)) - 1) :
               /\ written' = written \o SubSeq(Val(call.payload), 1, k)
               /\ EndCall(Raised(Exc("IOError", <<>>)))
    /\ UNCHANGED <<devVars, variant, op, nops, outcome, call, sock, open_socks,
                   connects, field, chunk, inbound, cacheVars, countVars,
                   remoteVars>>

\* iter(v, b''): v must be callable, and the bytes recv() returned are not
IterSentinel(v) == Raised(Exc("TypeError", <<>>))

\* what recv(BUF_SIZE) can return while the daemon sends response: some
\* first part of it of at most BUF_SIZE bytes, b'' for an empty response
RecvChunks(response) ==
    IF response = <<>> THEN {<<>>}
    ELSE {SubSeq(response, 1, k) :
             k \in 1..(IF Len(response) < BUF_SIZE THEN Len(response)
                       ELSE BUF_SIZE)}

\* return_data = b''.join(iter(client_socket.recv(BUF_SIZE), b'')): recv
\* is called once, and iter() is given what it returned
LocalRecv ==
    /\ pc = "recv"
    /\ \E response \in Responses :
        /\ inbound' = Some(response)
        /\ \/ /\ EndCall(Raised(Exc("IOError", <<>>)))
              /\ UNCHANGED chunk
           \/ \E c \in RecvChunks(response) :
              /\ chunk' = Some(c)
              /\ EndCall(IterSentinel(c))
    /\ UNCHANGED <<devVars, variant, op, nops, outcome, call, sock, open_socks,
                   connects, written, field, cacheVars, countVars,
                   remoteVars>>

\* a socket no frame refers to any more is closed by its finaliser; this
\* is the only close of a socket of _do_qubesd_call, and it comes after the
\* call has handed its result (an exception and its traceback) to its
\* caller: between two calls, or while a later call is in progress.  The
\* call in progress still refers to its own client_socket, from
\* socket.socket() until its result has been taken by the caller
SocketDealloc ==
    /\ LET HeldSocks ==
              IF /\ pc \in {"connect", "send", "nul", "payload", "recv",
                          "ret"}
                 /\ variant = "QubesLocal" /\ sock # "none"
              THEN 1 ELSE 0
       IN open_socks > HeldSocks
    /\ open_socks' = open_socks - 1
    /\ UNCHANGED <<devVars, variant, op, nops, outcome, pc, call, callres, sock,
                   connects, written, field, chunk, inbound, cacheVars,
                   countVars, remoteVars>>

\* ------------------------------------------------------------------------
\* QubesRemote._do_qubesd_call
\* ------------------------------------------------------------------------

\* ServiceName with the test "if arg:" in place of "if arg is not None"
ServiceName_Truthy(method, arg) ==
    IF IsNone(arg) \/ Val(arg) = <<>> THEN method
    ELSE method \o <<PLUS>> \o Val(arg)

\* service_name: method, and '+' and arg when arg is not None
ServiceName(method, arg) ==
    IF IsNone(arg) THEN method ELSE method \o <<PLUS>> \o Val(arg)

\* Popen(['qrexec-client-vm', dest, service_name], ...): the process is
\* started, or the executable cannot be run (OSError)
RemotePopen ==
    /\ pc = "popen"
    /\ \/ /\ proc' = [state |-> "running",
                      argv |-> <<QrexecClientVm, call.dest,
                                 ServiceName(call.method, call.arg)>>,
                      stdin |-> <<>>]
          /\ spawned' = spawned + 1
          /\ live_procs' = live_procs + 1
          /\ pc' = "communicate"
          /\ UNCHANGED callres
       \/ /\ EndCall(Raised(Exc("OSError", <<>>)))
          /\ UNCHANGED <<proc, spawned, live_procs>>
    /\ UNCHANGED <<devVars, variant, op, nops, outcome, call, comm, decoded,
                   cacheVars, countVars, localVars>>

\* p.communicate(payload): the payload (nothing for None) is written to
\* stdin, stdout and stderr are read to their end, the process is waited for
RemoteCommunicate ==
    /\ pc = "communicate"
    /\ \E stdout \in Responses, stderr \in Stderrs, rc \in ReturnCodes :
        comm' = [stdout |-> stdout, stderr |-> stderr, returncode |-> rc]
    /\ proc' = [proc EXCEPT !.state = "exited",
                            !.stdin = IF IsNone(call.payload) THEN <<>>
                                      ELSE Val(call.payload)]
    /\ live_procs' = live_procs - 1
    /\ pc' = "returncode"
    /\ UNCHANGED <<devVars, variant, op, nops, outcome, call, callres, spawned,
                   decoded, cacheVars, countVars, localVars>>

\* RemoteResult without the test of the returncode
RemoteResult_NoExitCheck(c) == ParseQubesdResponse(c.stdout)

\* the result of the call after communicate(): for a returncode that is
\* not 0, QubesException('Service call error: %s', stderr.decode()) (or the
\* UnicodeDecodeError of decode()); else the decoder's result for stdout
RemoteResult(c) ==
    IF c.returncode # 0
    THEN IF Utf8Ok(c.stderr)
         THEN Raised(Exc("QubesException",
                         <<ServiceCallErrorFmt, Utf8Decode(c.stderr)>>))
         ELSE Raised(Exc("UnicodeDecodeError", <<>>))
    ELSE ParseQubesdResponse(c.stdout)

\* the buffer handed to the decoder, None when it is not called
RemoteDecoded(c) == IF c.returncode # 0 THEN None ELSE Some(c.stdout)

RemoteReturn ==
    /\ pc = "returncode"
    /\ decoded' = RemoteDecoded(comm)
    /\ EndCall(RemoteResult(comm))
    /\ UNCHANGED <<devVars, variant, op, nops, outcome, call, proc, spawned,
                   live_procs, comm, cacheVars, countVars, localVars>>

\* ------------------------------------------------------------------------
\* The process
\* ------------------------------------------------------------------------

Next ==
    \/ \E force \in BOOLEAN : RefreshCache(force)
    \/ \E item \in Items : OpContains(item)
    \/ \E item \in Items : OpGetItem(item)
    \/ OpIter
    \/ OpKeys
    \/ RefreshResume
    \/ \E dest \in Dests, method \in Methods, arg \in Args,
          payload \in Payloads : DoQubesdCall(dest, method, arg, payload)
    \/ CallReturn
    \/ LocalConnect
    \/ LocalSendField
    \/ LocalSendPayload
    \/ LocalRecv
    \/ SocketDealloc
    \/ RemotePopen
    \/ RemoteCommunicate
    \/ RemoteReturn

Spec == Init /\ [][Next]_vars

\* ------------------------------------------------------------------------
\* qvm-device: the domains, their devices, and what the daemon answers
\* ------------------------------------------------------------------------

\* app.domains, in the order the collection yields them
AppDomains == 1..MaxDomains

\* 'block', 'usb': the device classes a command is given
Block == <<98, 108, 111, 99, 107>>
Usb == <<117, 115, 98>>

DevClasses == {Block, Usb}

\* 'sda', a device every domain exposes, and 'sdz', one no domain exposes
Sda == <<115, 100, 97>>
Sdz == <<115, 100, 122>>

\* devices are the same when their backend domain and ident are
DeviceInfo(backend_domain, ident) ==
    [backend_domain |-> backend_domain, ident |-> ident]

\* the devices of the system: one exposed by each domain
AllDevices == {DeviceInfo(d, Sda) : d \in AppDomains}

\* 'read-only', 'yes', 'no'
ReadOnlyKey == <<114, 101, 97, 100, 45, 111, 110, 108, 121>>
Yes == <<121, 101, 115>>
No == <<110, 111>>

\* DeviceAssignment(backend_domain, ident): no options yet, not required,
\* not attached automatically
DeviceAssignment(backend_domain, ident) ==
    [backend_domain |-> backend_domain, ident |-> ident,
     options |-> EmptyDict, required |-> FALSE,
     attach_automatically |-> FALSE]

\* dev != assignment is false when both name the same device
SameDevice(dev, assignment) ==
    /\ dev.backend_domain = assignment.backend_domain
    /\ dev.ident = assignment.ident

\* what a domain answers to get_assigned_devices, get_attached_devices
\* (devices of other domains) and get_exposed_devices (its own)
ListedReplies(domain, method) ==
    IF method = "get_exposed_devices"
    THEN SUBSET {DeviceInfo(domain, Sda)}
    ELSE {{}} \cup {{dev} : dev \in {v \in AllDevices :
                                        v.backend_domain # domain}}

\* what a domain answers to get_dedicated_devices, in the order the
\* assignments are yielded: no assignment, or the assignment of a device of
\* another domain, with or without options, or the assignment of a device
\* that is not listed, or two assignments of the device of the first other
\* domain, the second one with options
DedicatedReplies(domain) ==
    LET others == AppDomains \ {domain}
        first == CHOOSE b \in others : \A c \in others : b <= c
        ro(b) == [DeviceAssignment(b, Sda)
                     EXCEPT !.options = DictSet(EmptyDict, ReadOnlyKey, Yes)]
    IN {<<>>} \cup {<<DeviceAssignment(b, Sda)>> : b \in others}
              \cup {<<ro(b)>> : b \in others}
              \cup {<<DeviceAssignment(domain, Sdz)>>}
              \cup {<<DeviceAssignment(first, Sda), ro(first)>>}

\* the errors an operation on a domain raises: the domain is gone, the
\* daemon refuses or does not answer, the transport fails.  None of the
\* three is a subclass of another.
DaemonErrors == {"QubesVMNotFoundError", "QubesDaemonAccessError", "OSError"}

\* an operation issued on a domain, as dlog records it
LogEntry(method, domain, dev, assignment, raised) ==
    [method |-> method, domain |-> domain, dev |-> dev,
     assignment |-> assignment, raised |-> raised]

\* ------------------------------------------------------------------------
\* qvm-device: list_devices
\* ------------------------------------------------------------------------

\* the message format of the QubesException of list_devices
FailedToListFmt ==
    "Failed to list '%s' devices, this device type either does not exist or you do not have access to it."

\* the except clause around the first loops: QubesDaemonAccessError becomes
\* a QubesException of the device class, any other error goes on as it is
ListFailure(e, devclass) ==
    IF e = "QubesDaemonAccessError"
    THEN Exc("QubesException", <<FailedToListFmt, devclass>>)
    ELSE Exc(e, <<>>)

\* ExposedHandler without the except clause of the loop
ExposedHandler_NoSkip(e) == "raise"

\* the except clause inside the loop over app.domains that collects the
\* exposed devices
ExposedHandler(e) ==
    IF e = "QubesVMNotFoundError" THEN "continue" ELSE "raise"

\* the except clause inside the loop that collects the assignments
DedicatedHandler(e) ==
    IF e = "QubesVMNotFoundError" THEN "continue" ELSE "raise"

\* the calls of the loop over args.domains: three for each domain
SelectedCalls(domains) ==
    LET SelectedMethods ==
            <<"get_assigned_devices", "get_attached_devices",
              "get_exposed_devices">>
    IN [k \in 1..(3 * Len(domains)) |->
           [domain |-> domains[((k - 1) \div 3) + 1],
            method |-> SelectedMethods[((k - 1) % 3) + 1]]]

\* the calls of the loop over app.domains
ExposedCalls ==
    [k \in 1..MaxDomains |-> [domain |-> k, method |-> "get_exposed_devices"]]

\* the orders a loop can take the elements of S in
Orders(S) ==
    {f \in [1..Cardinality(S) -> S] : \A x \in S : \E i \in DOMAIN f : f[i] = x}

\* the iterations of "for dev in result: for domain in app.domains"
DedicatedPairs(order) ==
    [k \in 1..(Len(order) * MaxDomains) |->
        [dev |-> order[((k - 1) \div MaxDomains) + 1],
         domain |-> ((k - 1) % MaxDomains) + 1]]

\* what one domain's dedicated devices add to the frontends of dev: for
\* every assignment of dev, in the order they are yielded, the domain, with
\* the options of the assignment when it has some
Frontends(domain, dev, assignments) ==
    LET matching == SelectSeq(assignments, LAMBDA a : SameDevice(dev, a))
    IN [i \in 1..Len(matching) |->
           [domain |-> domain, options |-> matching[i].options]]

\* device.description
Description(dev) == <<"disk of domain", dev.backend_domain>>

\* str(domain): the name of domain d is 'vm<d>'
VmName(d) == <<118, 109, 48 + d>>

\* Line(dev) with its frontends: ident is the text
\* "{!s}:{!s}".format(device.backend_domain, device.ident)
Line(dev, frontends) ==
    [ident |-> VmName(dev.backend_domain) \o <<58>> \o dev.ident,
     description |-> Description(dev), assignments |-> frontends]

\* prepare_table: header + sorted(output), the header when stdout is a
\* terminal, and one row (ident, description, assignments) for each Line.
\* sorted(output) puts the rows in the order of their first column, the
\* order of texts: a text comes before another when it is a proper prefix
\* of it or has the smaller character at the first place they differ.  No
\* two lines of a result have the same first column
prepare_table(res, isatty) ==
    LET TableHeader == <<"BACKEND:DEVID", "DESCRIPTION", "USED BY">>
        Before(a, b) ==
            \E k \in 1..Len(b) :
                /\ k <= Len(a) + 1
                /\ \A i \in 1..(k - 1) : a[i] = b[i]
                /\ k <= Len(a) => a[k] < b[k]
        SortedRows(rows) ==
            CHOOSE f \in Orders(rows) :
                \A i, j \in DOMAIN f :
                    i < j => Before(f[i].ident, f[j].ident)
    IN [header |-> IF isatty THEN <<TableHeader>> ELSE <<>>,
        rows |-> SortedRows({Line(dev, res[dev]) : dev \in DOMAIN res})]

\* list_devices(args) is called: the domains of args when it has any,
\* else every domain of the application
ListDevices ==
    /\ dpc = "idle"
    /\ mpc \in {"func", "direct"} /\ args.func = "list_devices"
    /\ IF args.domains # <<>>
       THEN dpc' = "selected" /\ dqueue' = SelectedCalls(args.domains)
       ELSE dpc' = "exposed" /\ dqueue' = ExposedCalls
    /\ UNCHANGED <<args, devices, result, dlog, device_assignment, dresult,
                   printed, appVars, mainVars>>

\* one call of the loop over args.domains; no error is skipped here
ListSelected ==
    /\ dpc = "selected"
    /\ LET c == Head(dqueue)
       IN \/ \E devs \in ListedReplies(c.domain, c.method) :
                /\ devices' = devices \cup devs
                /\ dlog' = Append(dlog, LogEntry(c.method, c.domain, None,
                                                 None, ""))
                /\ dqueue' = Tail(dqueue)
                /\ dpc' = IF Tail(dqueue) = <<>> THEN "result" ELSE "selected"
                /\ UNCHANGED dresult
          \/ \E e \in DaemonErrors :
                /\ dlog' = Append(dlog, LogEntry(c.method, c.domain, None,
                                                 None, e))
                /\ dresult' = Raised(ListFailure(e, args.devclass))
                /\ dpc' = "done"
                /\ UNCHANGED <<devices, dqueue>>
    /\ UNCHANGED <<args, result, device_assignment, printed, appVars, mainVars>>

\* one round of the loop over app.domains: get_exposed_devices() of the
\* domain
ListExposed ==
    /\ dpc = "exposed"
    /\ LET c == Head(dqueue)
           rest == Tail(dqueue)
       IN \/ \E devs \in ListedReplies(c.domain, c.method) :
                /\ devices' = devices \cup devs
                /\ dlog' = Append(dlog, LogEntry(c.method, c.domain, None,
                                                 None, ""))
                /\ dqueue' = rest
                /\ dpc' = IF rest = <<>> THEN "result" ELSE "exposed"
                /\ UNCHANGED dresult
          \/ \E e \in DaemonErrors :
                /\ dlog' = Append(dlog, LogEntry(c.method, c.domain, None,
                                                 None, e))
                /\ UNCHANGED devices
                /\ IF ExposedHandler(e) = "continue"
                   THEN /\ dqueue' = rest
                        /\ dpc' = IF rest = <<>> THEN "result" ELSE "exposed"
                        /\ UNCHANGED dresult
                   ELSE /\ dresult' = Raised(ListFailure(e, args.devclass))
                        /\ dpc' = "done"
                        /\ UNCHANGED dqueue
    /\ UNCHANGED <<args, result, device_assignment, printed, appVars, mainVars>>

\* result = {dev: Line(dev) for dev in devices}, and the start of the loops
\* over result and app.domains
ListResult ==
    /\ dpc = "result"
    /\ result' = [dev \in devices |-> <<>>]
    /\ \E order \in Orders(devices) :
          /\ dqueue' = DedicatedPairs(order)
          /\ dpc' = IF order = <<>> THEN "print" ELSE "dedicated"
    /\ UNCHANGED <<args, devices, dlog, device_assignment, dresult, printed,
                   appVars, mainVars>>

\* one round of the inner loop: the backend domain of the device is passed
\* over; get_dedicated_devices() of any other domain
ListDedicated ==
    /\ dpc = "dedicated"
    /\ LET c == Head(dqueue)
           rest == Tail(dqueue)
           goOn == /\ dqueue' = rest
                   /\ dpc' = IF rest = <<>> THEN "print" ELSE "dedicated"
                   /\ UNCHANGED dresult
       IN IF c.domain = c.dev.backend_domain
          THEN goOn /\ UNCHANGED <<result, dlog>>
          ELSE \/ \E assignments \in DedicatedReplies(c.domain) :
                     /\ result' = [result EXCEPT ![c.dev] =
                            @ \o Frontends(c.domain, c.dev, assignments)]
                     /\ dlog' = Append(dlog,
                            LogEntry("get_dedicated_devices", c.domain,
                                     Some(c.dev), None, ""))
                     /\ goOn
               \/ \E e \in DaemonErrors :
                     /\ dlog' = Append(dlog,
                            LogEntry("get_dedicated_devices", c.domain,
                                     Some(c.dev), None, e))
                     /\ UNCHANGED result
                     /\ IF DedicatedHandler(e) = "continue"
                        THEN goOn
                        ELSE /\ dresult' = Raised(Exc(e, <<>>))
                             /\ dpc' = "done"
                             /\ UNCHANGED dqueue
    /\ UNCHANGED <<args, devices, device_assignment, printed, appVars, mainVars>>

\* qubesadmin.tools.print_table(prepare_table(result.values()))
ListPrint ==
    /\ dpc = "print"
    /\ \E isatty \in BOOLEAN : printed' = Some(prepare_table(result, isatty))
    /\ dresult' = Returned(<<>>)
    /\ dpc' = "done"
    /\ UNCHANGED <<args, dqueue, devices, result, dlog, device_assignment,
                   appVars, mainVars>>

\* ------------------------------------------------------------------------
\* qvm-device: attach_device
\* ------------------------------------------------------------------------

\* 'read-only=no', 'a=b', and 'read-only' (no '=')
OptReadOnlyNo == ReadOnlyKey \o <<EQ>> \o No
OptOther == <<97, EQ, 98>>
OptNoEq == ReadOnlyKey

\* opt.split('=', 1) for opt in args.option or []
OptionPairs(option) ==
    LET opts == IF IsNone(option) THEN <<>> ELSE Val(option)
    IN [i \in 1..Len(opts) |-> split1(opts[i], EQ)]

\* AttachOptions where --ro does not replace a read-only option given
AttachOptions_KeepGiven(option, ro) ==
    LET options == Dict(OptionPairs(option))
    IN IF ro /\ ReadOnlyKey \notin DOMAIN options
       THEN DictSet(options, ReadOnlyKey, Yes)
       ELSE options

\* options = dict(...); if args.ro: options['read-only'] = 'yes'
AttachOptions(option, ro) ==
    LET options == Dict(OptionPairs(option))
    IN IF ro THEN DictSet(options, ReadOnlyKey, Yes) ELSE options

\* attach_device(args) up to the attach: the DeviceAssignment is made and
\* gets the options; an option without '=' makes dict() raise ValueError
AttachDevice ==
    /\ dpc = "idle"
    /\ mpc \in {"func", "direct"} /\ args.func = "attach_device"
    /\ LET device == Val(args.device)
           a == DeviceAssignment(device.backend_domain, device.ident)
       IN IF DictOk(OptionPairs(args.option))
          THEN /\ device_assignment' =
                      Some([a EXCEPT !.options = AttachOptions(args.option,
                                                              args.ro)])
               /\ dpc' = "attach"
               /\ UNCHANGED dresult
          ELSE /\ device_assignment' = Some(a)
               /\ dresult' = Raised(Exc("ValueError", <<>>))
               /\ dpc' = "done"
    /\ UNCHANGED <<args, dqueue, devices, result, dlog, printed, appVars, mainVars>>

\* vm.devices[args.devclass].attach(device_assignment), and the test of
\* args.required when it returns
AttachCall ==
    /\ dpc = "attach"
    /\ \E r \in {""} \cup DaemonErrors :
          /\ dlog' = Append(dlog, LogEntry("attach", args.domains[1], None,
                                           device_assignment, r))
          /\ IF r # ""
             THEN /\ dresult' = Raised(Exc(r, <<>>))
                  /\ dpc' = "done"
                  /\ UNCHANGED device_assignment
             ELSE IF args.required
             THEN /\ device_assignment' =
                         Some([Val(device_assignment)
                                  EXCEPT !.required = args.required])
                  /\ dpc' = "assign"
                  /\ UNCHANGED dresult
             ELSE /\ dresult' = Returned(<<>>)
                  /\ dpc' = "done"
                  /\ UNCHANGED device_assignment
    /\ UNCHANGED <<args, dqueue, devices, result, printed, appVars, mainVars>>

\* vm.devices[args.devclass].assign(device_assignment)
AssignCall ==
    /\ dpc = "assign"
    /\ \E r \in {""} \cup DaemonErrors :
          /\ dlog' = Append(dlog, LogEntry("assign", args.domains[1], None,
                                           device_assignment, r))
          /\ dresult' = IF r # "" THEN Raised(Exc(r, <<>>))
                        ELSE Returned(<<>>)
          /\ dpc' = "done"
    /\ UNCHANGED <<args, dqueue, devices, result, device_assignment, printed,
                   appVars, mainVars>>

\* ------------------------------------------------------------------------
\* qvm-device: detach_device, unassign_device, assign_device, info_device
\* ------------------------------------------------------------------------

\* the command ends: it returns, or raises e
CommandEnds(r) ==
    /\ dresult' = (IF r = "" THEN Returned(<<>>) ELSE Raised(Exc(r, <<>>)))
    /\ dpc' = "done"

\* detach_device and unassign_device up to their first operation: with a
\* device, its DeviceAssignment is the one to remove; without, the domain
\* is asked for the assignments to remove
RemoveStart(func, collect, remove) ==
    /\ dpc = "idle"
    /\ mpc \in {"func", "direct"} /\ args.func = func
    /\ IF ~IsNone(args.device)
       THEN LET device == Val(args.device)
                a == DeviceAssignment(device.backend_domain, device.ident)
            IN /\ device_assignment' = Some(a)
               /\ dqueue' = <<a>>
               /\ dpc' = remove
       ELSE /\ dpc' = collect
            /\ UNCHANGED <<device_assignment, dqueue>>
    /\ UNCHANGED <<args, devices, result, dlog, dresult, printed, appVars,
                   mainVars>>

\* get_attached_devices() or get_assigned_devices() of the domain: the
\* assignments the loop will remove, or an error, which ends the command
RemoveCollect(collect, method, remove) ==
    /\ dpc = collect
    /\ \/ \E reply \in DedicatedReplies(args.domains[1]) :
             /\ dlog' = Append(dlog, LogEntry(method, args.domains[1], None,
                                              None, ""))
             /\ dqueue' = reply
             /\ IF reply = <<>>
                THEN CommandEnds("")
                ELSE dpc' = remove /\ UNCHANGED dresult
       \/ \E e \in DaemonErrors :
             /\ dlog' = Append(dlog, LogEntry(method, args.domains[1], None,
                                              None, e))
             /\ CommandEnds(e)
             /\ UNCHANGED dqueue
    /\ UNCHANGED <<args, devices, result, device_assignment, printed,
                   appVars, mainVars>>

\* detach(device_assignment) or unassign(device_assignment) of the domain,
\* for the next assignment; the first error ends the command
RemoveCall(remove, method) ==
    /\ dpc = remove
    /\ LET a == Head(dqueue)
           rest == Tail(dqueue)
       IN /\ device_assignment' = Some(a)
          /\ \E r \in {""} \cup DaemonErrors :
                /\ dlog' = Append(dlog, LogEntry(method, args.domains[1],
                                                 None, Some(a), r))
                /\ IF r = "" /\ rest # <<>>
                   THEN /\ dqueue' = rest
                        /\ UNCHANGED <<dpc, dresult>>
                   ELSE /\ CommandEnds(r)
                        /\ UNCHANGED dqueue
    /\ UNCHANGED <<args, devices, result, printed, appVars, mainVars>>

\* detach_device(args), one step of it: its start, the call of
\* get_attached_devices(), or the detach of the next assignment
DetachDevice ==
    \/ RemoveStart("detach_device", "attached", "detach")
    \/ RemoveCollect("attached", "get_attached_devices", "detach")
    \/ RemoveCall("detach", "detach")

\* unassign_device(args), one step of it: its start, the call of
\* get_assigned_devices(), or the unassign of the next assignment
UnassignDevice ==
    \/ RemoveStart("unassign_device", "assigned", "unassign")
    \/ RemoveCollect("assigned", "get_assigned_devices", "unassign")
    \/ RemoveCall("unassign", "unassign")

\* assign_device(args) up to the assign: the DeviceAssignment gets the
\* options (ValueError for an option without '='), attach_automatically
\* and the required flag
AssignDevice ==
    /\ dpc = "idle"
    /\ mpc \in {"func", "direct"} /\ args.func = "assign_device"
    /\ LET device == Val(args.device)
           a == DeviceAssignment(device.backend_domain, device.ident)
       IN IF DictOk(OptionPairs(args.option))
          THEN /\ device_assignment' =
                      Some([a EXCEPT !.attach_automatically = TRUE,
                                     !.required = args.required,
                                     !.options = AttachOptions(args.option,
                                                               args.ro)])
               /\ dpc' = "assign"
               /\ UNCHANGED dresult
          ELSE /\ device_assignment' = Some(a)
               /\ CommandEnds("ValueError")
    /\ UNCHANGED <<args, dqueue, devices, result, dlog, printed, appVars,
                   mainVars>>

\* what info_device prints for an assignment: the description and the data
\* of its device, after the assignment itself when it comes from the domain
InfoOf(a, listed) ==
    [device_assignment |-> IF listed THEN Some(a) ELSE None,
     description |-> Description(a),
     data |-> <<"data of the device of domain", a.backend_domain>>]

\* info_device(args): with a device, the info of its DeviceAssignment is
\* printed; without, the domain is asked for its dedicated devices
InfoDevice ==
    /\ dpc = "idle"
    /\ mpc \in {"func", "direct"} /\ args.func = "info_device"
    /\ IF ~IsNone(args.device)
       THEN LET device == Val(args.device)
                a == DeviceAssignment(device.backend_domain, device.ident)
            IN /\ device_assignment' = Some(a)
               /\ printed' = Some(<<InfoOf(a, FALSE)>>)
               /\ CommandEnds("")
       ELSE /\ dpc' = "dedicated_info"
            /\ UNCHANGED <<device_assignment, printed, dresult>>
    /\ UNCHANGED <<args, dqueue, devices, result, dlog, appVars, mainVars>>

\* the loop over vm.devices[args.devclass].get_dedicated_devices(): the
\* info of every assignment is printed; an error of the domain ends the
\* command
InfoCollect ==
    /\ dpc = "dedicated_info"
    /\ \/ \E reply \in DedicatedReplies(args.domains[1]) :
             /\ dlog' = Append(dlog, LogEntry("get_dedicated_devices",
                                              args.domains[1], None, None, ""))
             /\ printed' = Some([i \in 1..Len(reply) |->
                                    InfoOf(reply[i], TRUE)])
             /\ device_assignment' =
                    (IF reply = <<>> THEN device_assignment
                     ELSE Some(reply[Len(reply)]))
             /\ CommandEnds("")
       \/ \E e \in DaemonErrors :
             /\ dlog' = Append(dlog, LogEntry("get_dedicated_devices",
                                              args.domains[1], None, None, e))
             /\ CommandEnds(e)
             /\ UNCHANGED <<printed, device_assignment>>
    /\ UNCHANGED <<args, dqueue, devices, result, appVars, mainVars>>

\* ------------------------------------------------------------------------
\* qvm-device: the command line
\* ------------------------------------------------------------------------

\* '-'
DASH == 45

\* the names and aliases of the subcommands
Word ==
    [list |-> <<108, 105, 115, 116>>, ls |-> <<108, 115>>, l |-> <<108>>,
     attach |-> <<97, 116, 116, 97, 99, 104>>, at |-> <<97, 116>>,
     a |-> <<97>>,
     detach |-> <<100, 101, 116, 97, 99, 104>>, d |-> <<100>>,
     dt |-> <<100, 116>>,
     assign |-> <<97, 115, 115, 105, 103, 110>>, s |-> <<115>>,
     unassign |-> <<117, 110, 97, 115, 115, 105, 103, 110>>, u |-> <<117>>,
     info |-> <<105, 110, 102, 111>>, i |-> <<105>>]

\* '--option', '-o', '--ro', '--persistent', '-p', '--required', '-r',
\* '--list-device-classes', '--list-classes'
Flag ==
    [option |-> <<DASH, DASH, 111, 112, 116, 105, 111, 110>>,
     o |-> <<DASH, 111>>,
     ro |-> <<DASH, DASH, 114, 111>>,
     persistent |->
         <<DASH, DASH, 112, 101, 114, 115, 105, 115, 116, 101, 110, 116>>,
     p |-> <<DASH, 112>>,
     required |-> <<DASH, DASH, 114, 101, 113, 117, 105, 114, 101, 100>>,
     r |-> <<DASH, 114>>,
     list_device_classes |->
         <<DASH, DASH, 108, 105, 115, 116, DASH, 100, 101, 118, 105, 99, 101,
           DASH, 99, 108, 97, 115, 115, 101, 115>>,
     list_classes |->
         <<DASH, DASH, 108, 105, 115, 116, DASH, 99, 108, 97, 115, 115, 101,
           115>>]

\* 'qvm-', 'qvm-device'
QvmPrefix == <<113, 118, 109, DASH>>
QvmDevice == QvmPrefix \o <<100, 101, 118, 105, 99, 101>>

\* os.path.basename(path): what follows the last '/' (47)
basename(path) ==
    LET parts == split(path, 47)
    IN parts[Len(parts)]

\* devclass of main: basename[4:] for a program named qvm-<class> other
\* than qvm-device, None otherwise
ProgramDevclass(name) ==
    IF StartsWith(name, QvmPrefix) /\ name # QvmDevice
    THEN Some(Tail_(name, 5))
    ELSE None

\* parse_args returned the namespace ns
Parsed(ns) == [exc |-> NoExc, ns |-> ns]

\* parser.error (code 2) or parser.error_runtime (code 1) ended the program
Exits(code) == [exc |-> Exc("SystemExit", Some(code)), ns |-> NoArgs]

\* the subparsers of get_parser: the names and aliases of the subcommand,
\* the function it sets, the nargs of its positional arguments (VMNAME: "*"
\* for list, 1 for the others; BACKEND:DEVICE_ID: "N" for nargs None, "?"
\* for argparse.OPTIONAL), allow_unknown of the device and its options
Subparsers ==
    {[func |-> "list_devices", names |-> {Word.list, Word.ls, Word.l},
      positionals |-> <<"*">>, allow_unknown |-> FALSE, flags |-> {}],
     [func |-> "attach_device", names |-> {Word.attach, Word.at, Word.a},
      positionals |-> <<"1", "N">>, allow_unknown |-> FALSE,
      flags |-> {Flag.option, Flag.o, Flag.ro, Flag.persistent, Flag.p}],
     [func |-> "detach_device", names |-> {Word.detach, Word.d, Word.dt},
      positionals |-> <<"1", "?">>, allow_unknown |-> TRUE, flags |-> {}],
     [func |-> "assign_device", names |-> {Word.assign, Word.s},
      positionals |-> <<"1", "N">>, allow_unknown |-> FALSE,
      flags |-> {Flag.option, Flag.o, Flag.ro, Flag.required, Flag.r}],
     [func |-> "unassign_device", names |-> {Word.unassign, Word.u},
      positionals |-> <<"1", "N">>, allow_unknown |-> TRUE, flags |-> {}],
     [func |-> "info_device", names |-> {Word.info, Word.i},
      positionals |-> <<"1", "?">>, allow_unknown |-> TRUE, flags |-> {}]}

\* ArgumentParser._parse_optional(w) of a parser with these option strings:
\* "A" for a word that is an argument, "O" with the option string and the
\* explicit argument for an option (flag <<>>: no such option in this
\* parser), "E" for an ambiguous option (parser.error).  In order: a word
\* that is empty or starts without '-' is an argument; an option string is
\* that option; '-' alone is an argument; the text before '=' that is an
\* option string is that option with the text after it; then the options
\* the word may stand for (_get_option_tuples: with '--' those that start
\* with the text before '=' when abbreviations are allowed, with one '-'
\* the option of its first two characters with the rest as argument); a
\* word like a negative number ('^-\d+$|^-\d*\.\d+$', '$' also before a
\* last line feed) or with a space is an argument.  The pattern is one on
\* str, so '\d' is any decimal digit of Unicode (category Nd, Unicode 14.0
\* in Python 3.11): zeros holds the digit zero of each script, whose ten
\* digits are consecutive code points, and 120782..120831 are the five
\* runs of mathematical digits
parse_optional(flags, allow_abbrev, w) ==
    LET A == [k |-> "A", flag |-> <<>>, explicit |-> None]
        O(f, e) == [k |-> "O", flag |-> f, explicit |-> e]
        eq == split1(w, EQ)
        tuples ==
            IF w[2] = DASH
            THEN IF allow_abbrev
                 THEN {O(g, IF Len(eq) = 2 THEN Some(eq[2]) ELSE None) :
                          g \in {x \in flags : StartsWith(x, eq[1])}}
                 ELSE {}
            ELSE {O(g, Some(Tail_(w, 3))) :
                     g \in {x \in flags : x = SubSeq(w, 1, 2)}}
                 \cup {O(g, None) : g \in {x \in flags : StartsWith(x, w)}}
        zeros ==
            {48, 1632, 1776, 1984, 2406, 2534, 2662, 2790, 2918, 3046,
             3174, 3302, 3430, 3558, 3664, 3792, 3872, 4160, 4240, 6112,
             6160, 6470, 6608, 6784, 6800, 6992, 7088, 7232, 7248, 42528,
             43216, 43264, 43472, 43504, 43600, 44016, 65296, 66720, 68912,
             69734, 69872, 69942, 70096, 70384, 70736, 70864, 71248, 71360,
             71472, 71904, 72016, 72784, 73040, 73120, 92768, 92864, 93008,
             123200, 123632, 125264, 130032}
        digit(c) ==
            \/ \E z \in zeros : c \in z..(z + 9)
            \/ c \in 120782..120831
        digits(t) == \A i \in DOMAIN t : digit(t[i])
        line == IF w[Len(w)] = LF THEN SubSeq(w, 1, Len(w) - 1) ELSE w
        negative ==
            \/ Len(line) > 1 /\ digits(Tail(line))
            \/ \E d \in 2..(Len(line) - 1) :
                  /\ line[d] = 46
                  /\ digits(SubSeq(line, 2, d - 1))
                  /\ digits(Tail_(line, d + 1))
    IN IF w = <<>> \/ w[1] # DASH THEN A
       ELSE IF w \in flags THEN O(w, None)
       ELSE IF Len(w) = 1 THEN A
       ELSE IF Len(eq) = 2 /\ eq[1] \in flags THEN O(eq[1], Some(eq[2]))
       ELSE IF Cardinality(tuples) > 1
       THEN [k |-> "E", flag |-> <<>>, explicit |-> None]
       ELSE IF tuples # {} THEN CHOOSE t \in tuples : TRUE
       ELSE IF negative \/ \E i \in DOMAIN w : w[i] = SP THEN A
       ELSE O(<<>>, None)

\* ArgumentParser._parse_known_args of a parser p (its option strings,
\* allow_abbrev and the nargs of its positional arguments: "0" for
\* store_const, "P" for the subcommand and its words) on words, from the
\* state st: the word to read next (i), the words of the positional
\* arguments consumed so far (values), what the options stored, and ok,
\* which is false once the parser has called error().  Every word gets a
\* mark: the first '--' is "-", every word after it "A", the others as
\* _parse_optional reads them.  While an option is ahead, the positional
\* arguments take the words before it (consume_positionals: as many of the
\* arguments left, in order, as match, each with the longest match of its
\* pattern: '-*A-*' for nargs None and 1, '-*A?-*' for "?", '-*[A-]*' for
\* "*", '-*A[-AO]*' for the subcommand, '-*-*' for store_const), then the
\* option is consumed (consume_optional: --option takes its explicit
\* argument or the next word, which must be an "A"; a one-letter flag with
\* an explicit argument reads it as further one-letter options).  After
\* the last option the positional arguments take what is left; words left
\* over and a required argument that took no word are errors.  _get_values
\* drops the first '--' from the words of every argument but the
\* subcommand.  --option appends its value (action='append'); --ro, and
\* --persistent and --required, whose dest is 'required', store True
RECURSIVE parse_known_args(_, _, _)
parse_known_args(p, words, st) ==
    LET n == Len(words)
        DashDash == <<DASH, DASH>>
        First(ws) ==
            IF \E i \in DOMAIN ws : ws[i] = DashDash
            THEN CHOOSE i \in DOMAIN ws :
                     ws[i] = DashDash /\ \A j \in 1..(i - 1) : ws[j] # DashDash
            ELSE 0
        Marks(marker) ==
            [i \in 1..n |->
                IF marker = 0 \/ i < marker
                THEN parse_optional(p.flags, p.allow_abbrev, words[i])
                ELSE [k |-> IF i = marker THEN "-" ELSE "A", flag |-> <<>>,
                      explicit |-> None]]
        get_values(nargs, ws, first) ==
            IF nargs = "P" \/ first = 0 THEN ws
            ELSE SubSeq(ws, 1, first - 1) \o Tail_(ws, first + 1)
        fail == [st EXCEPT !.ok = FALSE]
        takes == {Flag.option, Flag.o}
        Append_(to, value, stop) ==
            [to EXCEPT !.i = stop,
                       !.option = Some((IF IsNone(@) THEN <<>> ELSE Val(@))
                                       \o <<value>>)]
        StoreTrue(to, fs, stop) ==
            [to EXCEPT !.i = stop,
                       !.ro = @ \/ Flag.ro \in fs,
                       !.required = @ \/ fs \cap {Flag.persistent, Flag.p,
                                                  Flag.required, Flag.r} # {}]
        \* the loop goes on from the state next
        Continue(next) ==
            CHOOSE r \in {parse_known_args(p, words, s) : s \in {next}} : TRUE
        \* the parser on the marks of the words
        Consume(tag) ==
            LET ahead == {i \in 1..n : tag[i].k = "O" /\ i >= st.i}
                left == Tail_(p.positionals, Len(st.values) + 1)
                \* the number of words the pattern of nargs matches from
                \* word j on, -1 when it matches none ('--' occurs once
                \* among the marks)
                count(nargs, j) ==
                    LET Is(x, k) == x <= n /\ tag[x].k = k
                        d == IF Is(j, "-") THEN 1 ELSE 0
                        a == IF Is(j + d, "A") THEN 1 ELSE 0
                        b == IF Is(j + d + a, "-") THEN 1 ELSE 0
                    IN CASE nargs = "0" -> d
                         [] nargs \in {"N", "1"} ->
                                IF a = 1 THEN d + 1 + b ELSE -1
                         [] nargs = "?" -> d + a + b
                         [] nargs = "*" ->
                                Cardinality(
                                    {x \in j..n :
                                        \A y \in j..x : tag[y].k \in {"A", "-"}})
                         [] nargs = "P" -> IF a = 1 THEN n - j + 1 ELSE -1
                \* consume_positionals from word j on: the words of the
                \* arguments left that match, in order
                Positionals(j, taken) ==
                    LET c == count(left[Len(taken) + 1], j)
                        ws == SubSeq(words, j, j + c - 1)
                    IN IF Len(taken) = Len(left) \/ c < 0
                       THEN [i |-> j, taken |-> taken]
                       ELSE [i |-> j + c,
                             taken |-> Append(taken,
                                          get_values(left[Len(taken) + 1], ws,
                                                     First(ws)))]
                \* a parser of get_parser has two positional arguments
                Both(none) ==
                    CHOOSE r \in {Positionals(one.i, one.taken) :
                                     one \in {Positionals(none.i, none.taken)}} :
                        TRUE
                consume_optional(o, next) ==
                    LET f == o.flag
                        more == Val(o.explicit)
                        others == {k \in DOMAIN more :
                                      <<DASH, more[k]>> \notin p.flags \ takes}
                        k0 == CHOOSE k \in others : \A x \in others : k <= x
                        letters(upto) ==
                            {f} \cup {<<DASH, more[k]>> : k \in 1..upto}
                        value == IF k0 < Len(more) THEN <<Tail_(more, k0 + 1)>>
                                 ELSE IF next THEN <<words[st.i + 1]>>
                                 ELSE <<>>
                    IN IF f = <<>> THEN fail
                       ELSE IF IsNone(o.explicit)
                       THEN IF f \notin takes
                            THEN StoreTrue(st, {f}, st.i + 1)
                            ELSE IF next
                            THEN Append_(st, words[st.i + 1], st.i + 2)
                            ELSE fail
                       ELSE IF f \in takes THEN Append_(st, more, st.i + 1)
                       ELSE IF f[2] = DASH \/ more = <<>> THEN fail
                       ELSE IF others = {}
                       THEN StoreTrue(st, letters(Len(more)), st.i + 1)
                       ELSE IF <<DASH, more[k0]>> \notin p.flags \/ value = <<>>
                       THEN fail
                       ELSE Append_(StoreTrue(st, letters(k0 - 1), st.i),
                                    value[1],
                                    IF k0 < Len(more) THEN st.i + 1
                                    ELSE st.i + 2)
                Loop(pos) ==
                    IF ~st.ok \/ \E i \in 1..n : tag[i].k = "E" THEN fail
                    ELSE IF ahead # {}
                    THEN IF st.i \in ahead
                         THEN Continue(
                                  consume_optional(
                                      tag[st.i],
                                      st.i < n /\ tag[st.i + 1].k = "A"))
                         ELSE IF pos.i > st.i THEN Continue(pos)
                         ELSE fail
                    ELSE [pos EXCEPT !.ok =
                             /\ pos.i > n
                             /\ \A m \in (Len(pos.values) + 1)
                                            ..Len(p.positionals) :
                                    p.positionals[m] \in {"?", "*", "P"}]
            IN CHOOSE r \in
                   {Loop([st EXCEPT !.i = c.i, !.values = @ \o c.taken]) :
                       c \in {Both([i |-> st.i, taken |-> <<>>])}} : TRUE
    IN CHOOSE r \in {Consume(t) : t \in {Marks(First(words))}} : TRUE

\* the state of _parse_known_args before the first word
NothingParsed ==
    [i |-> 1, values |-> <<>>, option |-> None, ro |-> FALSE,
     required |-> FALSE, ok |-> TRUE]

\* app.domains[name]: the domains of the application with this name
DomainsNamed(name) == {d \in AppDomains : VmName(d) = name}

\* DeviceAction.parse_qubes_app on the words _get_values gave the device
\* argument.  namespace.device is None for an optional argument without a
\* word (nothing to do), the empty list for a required one without a word
\* (a list has no split: AttributeError), the word otherwise: it is split
\* at the first ':' (58; parser.error without one); the backend domain
\* must exist and, unless unknown devices are allowed, expose the device
\* (error_runtime)
parse_qubes_app(values, nargs, allow_unknown) ==
    LET parts == split1(values[1], 58)
        vms == DomainsNamed(parts[1])
        vm == CHOOSE d \in vms : TRUE
        Ends(exc) == [exc |-> exc, device |-> None]
    IN IF values = <<>>
       THEN Ends(IF nargs = "?" THEN NoExc ELSE Exc("AttributeError", <<>>))
       ELSE IF Len(parts) # 2 THEN Ends(Exits(2).exc)
       ELSE IF vms = {} THEN Ends(Exits(1).exc)
       ELSE IF ~allow_unknown /\ DeviceInfo(vm, parts[2]) \notin AllDevices
       THEN Ends(Exits(1).exc)
       ELSE [exc |-> NoExc, device |-> Some(DeviceInfo(vm, parts[2]))]

\* the subparser of a subcommand on the words after it: the options and
\* the positional arguments, then the domains of VMNAME (parser.error for
\* a name of no domain), then the device
ParseSubcommand(sp, devclass, tokens) ==
    LET Namespace(scan) ==
            LET names == scan.values[1]
                dev == IF Len(sp.positionals) = 2
                       THEN parse_qubes_app(scan.values[2], sp.positionals[2],
                                            sp.allow_unknown)
                       ELSE [exc |-> NoExc, device |-> None]
            IN IF ~scan.ok THEN Exits(2)
               ELSE IF \E i \in DOMAIN names : DomainsNamed(names[i]) = {}
               THEN Exits(2)
               ELSE IF dev.exc # NoExc THEN [exc |-> dev.exc, ns |-> NoArgs]
               ELSE Parsed([func |-> sp.func, devclass |-> devclass,
                            domains |->
                                [i \in DOMAIN names |->
                                    CHOOSE d \in DomainsNamed(names[i]) : TRUE],
                            device |-> dev.device, option |-> scan.option,
                            ro |-> scan.ro, required |-> scan.required])
    IN CHOOSE r \in
           {Namespace(scan) :
               scan \in {parse_known_args(
                             [flags |-> sp.flags, allow_abbrev |-> TRUE,
                              positionals |-> sp.positionals],
                             tokens, NothingParsed)}} : TRUE

\* get_parser(device_class).parse_args(argv).  The parser has the option
\* --list-device-classes, no abbreviations (allow_abbrev = False) and two
\* positional arguments: devclass, a constant that takes no word with "if
\* device_class:" and the first argument word otherwise, and the
\* subcommand, which takes its name and every word after it and hands
\* these to its subparser.  Without a subcommand func stays list_devices;
\* a word that names no subcommand is an error.  The options that
\* QubesArgumentParser of qubesadmin.tools adds to every parser are not
\* among the option strings
parse_args(device_class, argv) ==
    LET const == ~IsNone(device_class) /\ Val(device_class) # <<>>
        Namespace(top) ==
            LET devclass == IF const THEN Val(device_class)
                            ELSE top.values[1][1]
                command == top.values[2]
                sps == {sp \in Subparsers : command[1] \in sp.names}
            IN IF ~top.ok THEN Exits(2)
               ELSE IF Len(top.values) < 2
               THEN Parsed([NoArgs EXCEPT !.func = "list_devices",
                                          !.devclass = devclass])
               ELSE IF sps = {} THEN Exits(2)
               ELSE ParseSubcommand(CHOOSE sp \in sps : TRUE, devclass,
                                    Tail(command))
    IN CHOOSE r \in
           {Namespace(top) :
               top \in {parse_known_args(
                            [flags |-> {Flag.list_device_classes},
                             allow_abbrev |-> FALSE,
                             positionals |->
                                 <<IF const THEN "0" ELSE "N", "P">>],
                            argv, NothingParsed)}} : TRUE

\* ------------------------------------------------------------------------
\* qvm-device: main
\* ------------------------------------------------------------------------

\* the runs of main: sys.argv[0], sys.argv[1:] and the args parameter
\* (None when main is called without it).  The programs are 'qvm-device',
\* '/usr/bin/qvm-block' and 'pytest'; 'vm9' is the name of no domain,
\* 'frobnicate' that of no subcommand, '-1' and '-' with U+0663 (the
\* ARABIC-INDIC DIGIT THREE) words the parser reads as arguments, being
\* like a negative number, and '--' the word after which every word is one
Runs ==
    LET Run(prog, argv, a) == [prog |-> prog, argv |-> argv, args |-> a]
        UsrBinQvmBlock ==
            <<47, 117, 115, 114, 47, 98, 105, 110, 47>> \o QvmPrefix \o Block
        Pytest == <<112, 121, 116, 101, 115, 116>>
        Frobnicate == <<102, 114, 111, 98, 110, 105, 99, 97, 116, 101>>
        Vm9 == <<118, 109, 57>>
        Vm2Sda == Vm2 \o <<58>> \o Sda
        Vm9Sda == Vm9 \o <<58>> \o Sda
        Vm2Sdz == Vm2 \o <<58>> \o Sdz
        DashDash == <<DASH, DASH>>
        MinusOne == <<DASH, 49>>
        MinusThree == <<DASH, 1635>>
    IN
    {\* list: over all domains, by default, of some domains, of a class
     \* named by a first word that is no option
     Run(QvmDevice, <<Block, Word.list>>, None),
     Run(UsrBinQvmBlock, <<>>, None),
     Run(QvmDevice, <<Usb, Word.ls, Vm1>>, None),
     Run(Pytest, <<Word.list>>, Some(<<Block, Word.l, Vm1, Vm2>>)),
     Run(QvmDevice, <<MinusThree>>, None),
     Run(Pytest, <<Word.list>>, Some(<<Block, Flag.list_device_classes>>)),
     \* attach
     Run(QvmDevice, <<Block, Word.attach, Vm1, Vm2Sda, Flag.o, OptOther, Flag.o,
                      OptReadOnlyNo, Flag.ro, Flag.p>>, None),
     Run(UsrBinQvmBlock, <<Word.at, Vm1, Vm2Sda>>, None),
     Run(UsrBinQvmBlock, <<Word.a, Vm1, Vm2Sda, Flag.option, OptNoEq>>, None),
     Run(Pytest, <<Word.list>>, Some(<<Block, Word.attach, Vm1, Vm2Sda,
                                   Flag.persistent>>)),
     \* command lines the parser refuses
     Run(UsrBinQvmBlock, <<Word.attach>>, None),
     Run(UsrBinQvmBlock, <<Word.attach, Vm1, Vm9Sda>>, None),
     Run(UsrBinQvmBlock, <<Word.attach, Vm1, Vm2Sdz>>, None),
     Run(UsrBinQvmBlock, <<Word.attach, Vm1, Sda>>, None),
     Run(UsrBinQvmBlock, <<Word.attach, Vm9, Vm2Sda>>, None),
     Run(UsrBinQvmBlock, <<Word.u, Vm1>>, None),
     Run(UsrBinQvmBlock, <<Frobnicate>>, None),
     Run(QvmDevice, <<>>, None),
     Run(Pytest, <<>>, Some(<<Flag.list_classes>>)),
     \* '--' and words that start with '-' and are no options
     Run(QvmDevice, <<DashDash, Block, Word.u, Vm1, Vm2Sda>>, None),
     Run(UsrBinQvmBlock, <<DashDash, Word.i, Vm1>>, None),
     Run(Pytest, <<>>, Some(<<DashDash, Block, Word.d, Vm1, Vm2Sda>>)),
     Run(UsrBinQvmBlock, <<Word.info, DashDash, Vm1, DashDash>>, None),
     Run(UsrBinQvmBlock, <<Word.attach, DashDash, Vm1, DashDash>>, None),
     Run(UsrBinQvmBlock, <<Word.attach, Vm1, Vm2Sda, Flag.o, MinusOne>>, None),
     Run(UsrBinQvmBlock, <<Word.attach, Vm1, Vm2Sda, Flag.o, MinusThree>>,
         None),
     Run(UsrBinQvmBlock, <<Word.assign, Vm1, Vm2Sda,
                           <<DASH, 114, 111, EQ, 97>>>>, None),
     \* detach, assign, unassign, info
     Run(UsrBinQvmBlock, <<Word.d, Vm1>>, None),
     Run(UsrBinQvmBlock, <<Word.dt, Vm1, Vm2Sdz>>, None),
     Run(UsrBinQvmBlock, <<Word.assign, Vm1, Vm2Sda, Flag.o, OptOther, Flag.ro,
                           Flag.r>>, None),
     Run(UsrBinQvmBlock, <<Word.s, Vm1, Vm2Sda, Flag.o, OptNoEq>>, None),
     Run(UsrBinQvmBlock, <<Word.unassign, Vm1, Vm2Sda>>, None),
     Run(UsrBinQvmBlock, <<Word.info, Vm1>>, None),
     Run(UsrBinQvmBlock, <<Word.i, Vm1, Vm2Sda>>, None),
     \* the options that list the device classes
     Run(QvmDevice, <<Flag.list_device_classes>>, None),
     Run(QvmDevice, <<Flag.list_classes>>, None),
     Run(QvmDevice, <<Block, Word.list, Flag.list_classes>>, None),
     Run(Pytest, <<Flag.list_classes>>, Some(<<Block, Word.list>>))}

\* HasListClasses that knows '--list-device-classes' only
HasListClasses_OneAlias(argv) ==
    \E i \in DOMAIN argv : argv[i] = Flag.list_device_classes

\* set(curr_action).intersection({'--list-device-classes',
\* '--list-classes'}) is not empty
HasListClasses(argv) ==
    \E i \in DOMAIN argv :
        argv[i] \in {Flag.list_device_classes, Flag.list_classes}

\* QubesExceptionTypes of an except clause that catches the exceptions of
\* the class QubesException itself and of no class derived from it
QubesExceptionTypes_BaseOnly == {"QubesException"}

\* the exceptions "except QubesException" catches: QubesException and the
\* errors of the daemon that are kinds of it
QubesExceptionTypes ==
    {"QubesException", "QubesVMNotFoundError", "QubesDaemonAccessError"}

\* str(e): the message of the exception, its format and arguments
ErrorText(e) == e.args

\* main(args, app) is called: the test of sys.argv[1:] for the options
\* that list the device classes
Main(run) ==
    /\ mpc = "idle"
    /\ sys_argv' = <<run.prog>> \o run.argv
    /\ main_args' = run.args
    /\ mpc' = IF HasListClasses(run.argv) THEN "list_classes" ELSE "parse"
    /\ UNCHANGED <<parse_called, classes, error, returned, escaped, dpc, args,
                   dqueue, devices, result, dlog, device_assignment, dresult,
                   printed, appVars>>

\* print('\n'.join(qubesadmin.Qubes().list_deviceclass())); return 0.  The
\* call is outside the try statement: an error of the daemon leaves main
MainListClasses ==
    /\ mpc = "list_classes"
    /\ \/ /\ classes' = Some(DevClasses)
          /\ returned' = Some(0)
          /\ mpc' = "returned"
          /\ UNCHANGED escaped
       \/ \E e \in DaemonErrors :
             /\ escaped' = Exc(e, <<>>)
             /\ mpc' = "raised"
             /\ UNCHANGED <<classes, returned>>
    /\ UNCHANGED <<sys_argv, main_args, parse_called, error, dpc, args,
                   dqueue, devices, result, dlog, device_assignment, dresult,
                   printed, appVars>>

\* parser = get_parser(devclass); args = parser.parse_args(args, app=app):
\* the words parsed are those of the args parameter, or sys.argv[1:]
\* without it; the parser ends the program (SystemExit) on an error
MainParse ==
    /\ mpc = "parse"
    /\ parse_called' = TRUE
    /\ LET devclass == ProgramDevclass(basename(Head(sys_argv)))
           words == IF IsNone(main_args) THEN Tail(sys_argv)
                    ELSE Val(main_args)
           r == parse_args(devclass, words)
       IN IF r.exc = NoExc
          THEN /\ args' = r.ns
               /\ mpc' = "func"
               /\ UNCHANGED escaped
          ELSE /\ escaped' = r.exc
               /\ mpc' = "raised"
               /\ UNCHANGED args
    /\ UNCHANGED <<sys_argv, main_args, classes, error, returned, dpc,
                   dqueue, devices, result, dlog, device_assignment, dresult,
                   printed, appVars>>

\* args.func(args) has returned or raised: return 0, or for a
\* QubesException parser.print_error(str(e)) and return 1; any other
\* exception leaves main
MainReturn ==
    /\ mpc = "func"
    /\ dpc = "done"
    /\ IF dresult.kind = "return"
       THEN /\ returned' = Some(0)
            /\ mpc' = "returned"
            /\ UNCHANGED <<error, escaped>>
       ELSE IF dresult.exc.type \in QubesExceptionTypes
       THEN /\ error' = Some(ErrorText(dresult.exc))
            /\ returned' = Some(1)
            /\ mpc' = "returned"
            /\ UNCHANGED escaped
       ELSE /\ escaped' = dresult.exc
            /\ mpc' = "raised"
            /\ UNCHANGED <<error, returned>>
    /\ UNCHANGED <<sys_argv, main_args, parse_called, classes, dpc, args,
                   dqueue, devices, result, dlog, device_assignment, dresult,
                   printed, appVars>>

\* the arguments of a subcommand function that is called without main:
\* unassign_device and list_devices without a device or a domain, and
\* attach_device of a device of the second domain: read-only, without an
\* option; read-only and required, with the options 'a=b' and
\* 'read-only=no'; with the option 'read-only', which holds no '='
DirectArgs ==
    {[NoArgs EXCEPT !.func = "unassign_device", !.devclass = Block,
                    !.domains = <<1>>],
     [NoArgs EXCEPT !.func = "list_devices", !.devclass = Usb],
     [NoArgs EXCEPT !.func = "attach_device", !.devclass = Block,
                    !.domains = <<1>>, !.device = Some(DeviceInfo(2, Sda)),
                    !.ro = TRUE],
     [NoArgs EXCEPT !.func = "attach_device", !.devclass = Block,
                    !.domains = <<1>>, !.device = Some(DeviceInfo(2, Sda)),
                    !.option = Some(<<OptOther, OptReadOnlyNo>>),
                    !.ro = TRUE, !.required = TRUE],
     [NoArgs EXCEPT !.func = "attach_device", !.devclass = Block,
                    !.domains = <<1>>, !.device = Some(DeviceInfo(2, Sda)),
                    !.option = Some(<<OptNoEq>>)]}

\* a subcommand function is called with its arguments, without main
DirectCall(a) ==
    /\ mpc = "idle"
    /\ mpc' = "direct"
    /\ args' = a
    /\ UNCHANGED <<sys_argv, main_args, parse_called, classes, error,
                   returned, escaped, dpc, dqueue, devices, result, dlog,
                   device_assignment, dresult, printed, appVars>>

\* ------------------------------------------------------------------------
\* qvm-device: one run of a command
\* ------------------------------------------------------------------------

NextDev ==
    \/ \E run \in Runs : Main(run)
    \/ MainListClasses
    \/ MainParse
    \/ MainReturn
    \/ \E a \in DirectArgs : DirectCall(a)
    \/ ListDevices
    \/ ListSelected
    \/ ListExposed
    \/ ListResult
    \/ ListDedicated
    \/ ListPrint
    \/ AttachDevice
    \/ AttachCall
    \/ AssignCall
    \/ DetachDevice
    \/ AssignDevice
    \/ UnassignDevice
    \/ InfoDevice
    \/ InfoCollect

SpecDev == Init /\ [][NextDev]_vars

\* ------------------------------------------------------------------------
\* Properties
\* ------------------------------------------------------------------------

\* a VMCollection operation (not a direct call) has just finished
ReadDone == pc = "idle" /\ op.name \notin {"", "call"}
RefreshDone == pc = "idle" /\ op.name = "refresh_cache"

\* list calls made by the operation in progress (or the last one)
OpCalls == list_calls - op.calls0

\* the names of the records of a list payload: what stands between the
\* start of a line and the first space after it
LineStarts(body) ==
    {i \in 1..Len(body) : i = 1 \/ body[i - 1] = LF}
RecordNames(body) ==
    {SubSeq(body, i, j - 1) :
        <<i, j>> \in {p \in LineStarts(body) \X (1..Len(body)) :
                         /\ p[2] >= p[1]
                         /\ body[p[2]] = SP
                         /\ \A k \in p[1]..(p[2] - 1) :
                                body[k] \notin {SP, LF}}}

\* C1: refresh_cache(force) makes no list call and leaves the cache as it
\* was when the cache is populated and force is false, and makes exactly
\* one list call in every other case; a forced refresh that returned leaves
\* the cache populated, so that the refresh that follows it makes no call
\* without force and exactly one with force.
C1_RefreshCalls ==
    /\ (pc # "idle" /\ op.name = "refresh_cache") => OpCalls = 1
    /\ RefreshDone =>
        /\ OpCalls = IF ~op.force /\ ~IsNone(op.before) THEN 0 ELSE 1
        /\ (~op.force /\ ~IsNone(op.before)) => vm_list = op.before
        /\ (op.force /\ outcome.kind = "return") => ~IsNone(vm_list)
        /\ op.after_forced => OpCalls = IF op.force THEN 1 ELSE 0

\* an unforced refresh right after a forced one that returned: no call made
C1_Witness ==
    /\ RefreshDone /\ ~op.force /\ op.after_forced
    /\ OpCalls = 0 /\ list_calls = 1 /\ vm_list = op.before

\* C2: after a refresh_cache(force=True) that returned, the keys of the
\* cache are exactly the names of the records of the list response it got:
\* every name listed, no other name, none of an earlier response; and
\* keys() returns exactly the names of the latest list response.
C2_KeysAreListedNames ==
    /\ (RefreshDone /\ op.force /\ outcome.kind = "return") =>
           /\ ~IsNone(last_list)
           /\ DOMAIN Val(vm_list) = RecordNames(Val(last_list))
    /\ (pc = "idle" /\ op.name = "keys" /\ outcome.kind = "return") =>
           outcome.names = RecordNames(Val(last_list))

\* a forced refresh replaced the two names of an earlier response by vm3
C2_Witness ==
    /\ RefreshDone /\ op.force /\ outcome.kind = "return"
    /\ ~IsNone(op.before) /\ DOMAIN Val(op.before) = {Vm1, Vm2}
    /\ last_list = Some(ListOne)
    /\ DOMAIN Val(vm_list) = {Vm3}

\* C3 as stated: without a forced refresh, at most one list call is made
\* over all the read operations, whatever the daemon answers.
C3_AtMostOneListCall == ~forced => list_calls <= 1

\* C3 amended: without a forced refresh, every read operation makes at
\* most one list call, and all list calls but at most one are calls that
\* failed (raised, or gave a list that could not be parsed); once a list
\* call has populated the cache no read makes another.
C3_AtMostOneSuccessfulListCall ==
    ~forced =>
        /\ OpCalls <= 1
        /\ list_calls <= list_fails + 1
        /\ ~IsNone(vm_list) => list_calls = list_fails + 1

\* three reads, the first of which populated the cache with its one call
C3_Witness ==
    /\ ~forced /\ pc = "idle" /\ nops = 3 /\ op.name = "keys"
    /\ list_calls = 1 /\ list_fails = 0 /\ ~IsNone(vm_list)

\* the call in progress has handed its result to its caller
CallDone == pc = "ret"
LocalDone == CallDone /\ variant = "QubesLocal"
RemoteDone == CallDone /\ variant = "QubesRemote"

\* the call ended by the failure of a socket operation
IoFailed == callres.kind = "raise" /\ callres.exc.type = "IOError"

\* the text of an optional argument, '' for None
TextOf(o) == IF IsNone(o) THEN <<>> ELSE Val(o)

\* the request of a call as the wire format defines it: source, method,
\* destination, argument, each followed by NUL, then the payload if any
RequestHeader(c) ==
    Dom0 \o <<NUL>> \o c.method \o <<NUL>> \o c.dest \o <<NUL>>
    \o TextOf(c.arg) \o <<NUL>>
Request(c) == RequestHeader(c) \o TextOf(c.payload)

\* all four fields of the call are ASCII texts, so each has its text bytes
RequestIsAscii(c) == AsciiOk(c.method) /\ AsciiOk(c.dest) /\ AsciiOk(TextOf(c.arg))

\* C4 as stated: every call through QubesLocal._do_qubesd_call that no
\* socket failure ends writes exactly source 'dom0', method, destination and
\* argument, each followed by one NUL, then the payload if and only if one
\* was given; splitting what precedes the payload on NUL gives back the
\* four fields in order.
C4_RequestBytes ==
    (LocalDone /\ sock = "connected" /\ RequestIsAscii(call) /\ ~IoFailed) =>
        /\ written = Request(call)
        /\ split(SubSeq(written, 1, Len(RequestHeader(call)) - 1), NUL)
               = <<Dom0, call.method, call.dest, TextOf(call.arg)>>

\* C5 as stated: a call made with no argument writes an empty argument
\* field and its NUL, and goes on to read the response; it does not fail
\* before the request is complete.
C5_NoArgumentStillWritten ==
    (LocalDone /\ sock = "connected" /\ IsNone(call.arg)
        /\ AsciiOk(call.method) /\ AsciiOk(call.dest) /\ ~IoFailed) =>
        /\ StartsWith(written,
                      Dom0 \o <<NUL>> \o call.method \o <<NUL>>
                      \o call.dest \o <<NUL, NUL>>)
        /\ ~IsNone(inbound)

\* C6 as stated: once the request is written, the call receives until the
\* daemon closes the connection, and the buffer it hands to the decoder is
\* all the daemon sent, whatever its length and however it was chunked.
C6_ReadUntilClosed ==
    (LocalDone /\ ~IsNone(inbound) /\ ~IoFailed) =>
        /\ decoded = inbound
        /\ callres = ParseQubesdResponse(Val(inbound))

\* C7 as stated: when a call hands its result to its caller, and between
\* two calls, no socket and no proxy process of a call is still held: the
\* socket is closed and the process waited for on every exit path.
C7_ResourcesReleased ==
    (pc \in {"ret", "idle"}) => (open_socks = 0 /\ live_procs = 0)

\* the text each error stream of the model is the UTF-8 encoding of
StderrText ==
    [b \in {<<>>, PermissionDenied, <<195, 169>>} |->
        IF b = <<195, 169>> THEN <<233>> ELSE b]

\* C8: when the proxy process exits with a code that is not 0 the call
\* raises, whatever the process wrote to its output stream: the output
\* stream is not handed to the decoder and nothing is returned; the error
\* raised is a QubesException that carries the text of the error stream
\* (when the error stream is no text, the error of decoding it is raised).
C8_NonZeroExitRaises ==
    (RemoteDone /\ comm.returncode # 0) =>
        /\ callres.kind = "raise"
        /\ callres.data = <<>>
        /\ decoded = None
        /\ comm.stderr \in DOMAIN StderrText =>
               /\ callres.exc.type = "QubesException"
               /\ callres.exc.args[Len(callres.exc.args)]
                      = StderrText[comm.stderr]

\* exit code 1 and "permission denied", with a success envelope on stdout
C8_Witness ==
    /\ RemoteDone /\ comm.returncode = 1
    /\ comm.stderr = PermissionDenied
    /\ comm.stdout = OkMarker \o ListTwo
    /\ callres.kind = "raise"
    /\ callres.exc.args = <<ServiceCallErrorFmt, PermissionDenied>>

\* the class of the error QubesRemote raises for a proxy that exits with 1
\* and "permission denied" on its error stream
RemoteFailureType ==
    RemoteResult([stdout |-> <<>>, stderr |-> PermissionDenied,
                  returncode |-> 1]).exc.type

\* C9 as stated: the failure to open the local channel leaves
\* QubesLocal._do_qubesd_call as the same kind of error as the non-zero
\* exit of the proxy leaves QubesRemote._do_qubesd_call.
C9_UniformTransportError ==
    (LocalDone /\ sock = "unconnected") =>
        (callres.kind = "raise" /\ callres.exc.type = RemoteFailureType)

\* the list payloads every record of which can be parsed
WellFormedLists == ListBodies \ MalformedLists

\* C10: a refresh whose list call raises, or whose list cannot be parsed,
\* raises and leaves the cache exactly as it was; the cache is unchanged
\* while the call is in progress, and whenever it is populated its names
\* are those of one complete, well-formed list response.
C10_RefreshIsAtomic ==
    /\ (pc # "idle" /\ op.name # "") => vm_list = op.before
    /\ (ReadDone /\ list_fails > op.fails0) =>
           (outcome.kind = "raise" /\ vm_list = op.before)
    /\ ~IsNone(vm_list) =>
           /\ ~IsNone(last_list) /\ Val(last_list) \in WellFormedLists
           /\ DOMAIN Val(vm_list) = RecordNames(Val(last_list))

\* a forced refresh of a populated cache got a list whose second record
\* cannot be parsed: it raised ValueError and the cache is the old map
C10_Witness ==
    /\ RefreshDone /\ op.force /\ list_fails > op.fails0
    /\ outcome.kind = "raise" /\ outcome.exc.type = "ValueError"
    /\ ~IsNone(op.before) /\ vm_list = op.before
    /\ DOMAIN Val(vm_list) = {Vm3}

\* the refresh of the operation that has just finished returned: the
\* cache holds the latest list response
RefreshedOk == ReadDone /\ list_fails = op.fails0 /\ ~IsNone(vm_list)

\* C11 as stated: after the refresh of a membership test or of a lookup,
\* the test is true exactly for the names of the latest list response, the
\* lookup of a listed name returns a wrapper of that entity that carries
\* its 'class' property, and the lookup of any other name raises KeyError.
C11_MembershipAndLookup ==
    LET listed == op.item.s \in RecordNames(Val(last_list))
    IN /\ (RefreshedOk /\ op.name = "__contains__") =>
              (outcome.found <=> listed)
       /\ (RefreshedOk /\ op.name = "__getitem__") =>
              /\ (outcome.kind = "raise") <=> ~listed
              /\ listed => outcome.vms =
                     {QubesVM(op.item.s, Val(vm_list)[op.item.s][ClassKey])}
              /\ ~listed => outcome.exc = Exc("KeyError", <<op.item.s>>)

\* the service name the specification gives for a call: the method alone
\* without an argument, else the method, "+" and the argument (an empty
\* argument gives the method followed by "+")
ExpectedServiceName(c) ==
    IF IsNone(c.arg) THEN c.method ELSE c.method \o <<PLUS>> \o Val(c.arg)

\* the call that has just finished started its proxy process
ProxyStarted == RemoteDone /\ spawned # op.spawned0

\* C12: a finished call of QubesRemote has started at most one proxy
\* process, and exactly one unless the process could not be started
\* (OSError); the process was addressed to the call's destination with the
\* service name of the specification, and got the payload, or nothing when
\* there is none, on its standard input.
C12_OneProxyPerCall ==
    RemoteDone =>
        /\ spawned = op.spawned0
               + (IF callres = Raised(Exc("OSError", <<>>)) THEN 0 ELSE 1)
        /\ ProxyStarted =>
               /\ proc.state = "exited"
               /\ proc.argv = <<QrexecClientVm, call.dest,
                                ExpectedServiceName(call)>>
               /\ proc.stdin = TextOf(call.payload)

\* a call with an empty argument ran the service "<method>+" and wrote its
\* payload
C12_Witness ==
    /\ ProxyStarted
    /\ call.arg = Some(<<>>)
    /\ proc.argv[3] = call.method \o <<PLUS>>
    /\ ~IsNone(call.payload) /\ proc.stdin = Val(call.payload)

\* C13: a call of QubesLocal whose connect() failed ends at once with the
\* IOError: connect() was tried once and not again, no byte of the request
\* was written and nothing was received.
C13_ConnectFailureIsImmediate ==
    (LocalDone /\ sock = "unconnected") =>
        /\ callres = Raised(Exc("IOError", <<>>))
        /\ connects = op.connects0 + 1
        /\ written = <<>>
        /\ IsNone(chunk)
        /\ IsNone(inbound)

\* a call failed at connect() after an earlier call had connected
C13_Witness ==
    /\ LocalDone /\ sock = "unconnected" /\ IoFailed
    /\ op.connects0 > 0

\* what QubesRemote makes of the raw response buffer buf of a proxy
\* process that exited with code 0
RemoteOutcomeFor(buf) ==
    RemoteResult([stdout |-> buf, stderr |-> <<>>, returncode |-> 0])

\* C14 as stated: a call of QubesRemote whose proxy process exited with
\* code 0 hands the whole output of the process to the response decoder and
\* ends with the decoder's result, and a call of QubesLocal that received a
\* raw response buffer ends as QubesRemote ends for the same buffer.
C14_TransportsAgree ==
    /\ (ProxyStarted /\ comm.returncode = 0) =>
           /\ decoded = Some(comm.stdout)
           /\ callres = ParseQubesdResponse(comm.stdout)
    /\ (LocalDone /\ ~IsNone(inbound) /\ ~IoFailed) =>
           callres = RemoteOutcomeFor(Val(inbound))

\* a structured error: a kind that is not empty and a message, or the
\* generic error of a response no kind and message can be taken from
StructuredError(e) ==
    \/ e.type = "QubesException" /\ Len(e.args) = 2 /\ e.args[1] # <<>>
    \/ e = Exc("MalformedResponse", <<>>)

\* the one outcome of a call for the raw response buffer buf: a buffer that
\* begins with "0\0" makes the call return the bytes after the marker, any
\* other buffer (empty, cut short, malformed) makes it raise a structured
\* error, and no bytes are returned with an error
OutcomeOf(buf) ==
    /\ StartsWith(buf, OkMarker) =>
           callres = Returned(SubSeq(buf, 3, Len(buf)))
    /\ ~StartsWith(buf, OkMarker) =>
           /\ callres.kind = "raise"
           /\ callres.data = <<>>
           /\ StructuredError(callres.exc)

C16_CacheLifecycle ==
    /\ IsNone(vm_list)
    /\ [][/\ vm_list' # vm_list =>
                 /\ pc = "ret" /\ op.name # "call"
                 /\ OpCalls = 1
                 /\ op.force \/ IsNone(op.before)
                 /\ callres.kind = "return"
          /\ ~IsNone(vm_list) => ~IsNone(vm_list')]_vars

\* a forced refresh replaced a populated cache by a different map
C16_Witness ==
    /\ RefreshDone /\ op.force /\ OpCalls = 1
    /\ ~IsNone(op.before) /\ ~IsNone(vm_list)
    /\ vm_list # op.before

\* C17: a call of QubesLocal that has got past socket creation and its
\* connect() has made exactly one connect() of its own, whatever sockets
\* earlier calls left, and none before that; it writes its request only
\* on the connection it opened itself; a call makes no connect() only when
\* socket.socket() failed, and then it ends with that IOError.
C17_FreshChannelPerCall ==
    /\ (variant = "QubesLocal" /\ pc = "connect") =>
           connects = op.connects0 /\ written = <<>>
    /\ (variant = "QubesLocal"
        /\ pc \in {"send", "nul", "payload", "recv", "ret"}) =>
           /\ connects = op.connects0 + (IF sock = "none" THEN 0 ELSE 1)
           /\ sock = "none" => (pc = "ret" /\ IoFailed /\ written = <<>>)
           /\ written # <<>> => sock = "connected"

\* every one of at least two calls in a row opened a connection, and the
\* last one wrote its request on its own
C17_Witness ==
    /\ LocalDone /\ nops >= 2 /\ connects = nops
    /\ sock = "connected" /\ written # <<>>

\* C18 as stated: an iteration whose refresh returned yields one wrapper
\* for each name of the cache and no other, and makes one list call when
\* the cache was unpopulated and none when it was populated.
C18_IterationYieldsWrappers ==
    (RefreshedOk /\ op.name = "__iter__") =>
        /\ outcome.kind = "return"
        /\ {w.name : w \in outcome.vms} = DOMAIN Val(vm_list)
        /\ Cardinality(outcome.vms) = Cardinality(DOMAIN Val(vm_list))
        /\ OpCalls = (IF IsNone(op.before) THEN 1 ELSE 0)

\* ------------------------------------------------------------------------
\* Properties of the qvm-device commands
\* ------------------------------------------------------------------------

\* list_devices over all domains has ended
ListAllDone ==
    dpc = "done" /\ args.func = "list_devices" /\ args.domains = <<>>

\* the operations of the run that raised e
RaisedAt(e) == {i \in DOMAIN dlog : dlog[i].raised = e}

\* get_exposed_devices() was called on the domain
ExposedVisited(domain) ==
    \E i \in DOMAIN dlog :
        dlog[i].method = "get_exposed_devices" /\ dlog[i].domain = domain

\* get_dedicated_devices() was called on the domain for the device
DedicatedVisited(domain, dev) ==
    \E i \in DOMAIN dlog :
        /\ dlog[i].method = "get_dedicated_devices"
        /\ dlog[i].domain = domain /\ dlog[i].dev = Some(dev)

\* every domain was asked for its exposed devices, every other domain for
\* its assignments of every device found, and the table was printed
ListedAll ==
    /\ \A d \in AppDomains : ExposedVisited(d)
    /\ \A dev \in devices :
           \A d \in AppDomains \ {dev.backend_domain} : DedicatedVisited(d, dev)
    /\ ~IsNone(printed) /\ dresult = Returned(<<>>)

\* the QubesException that names the device class of the command
ListException == Exc("QubesException", <<FailedToListFmt, args.devclass>>)

\* C19 as stated: in a listing over all domains, domains that are not
\* found are passed over in both loops, the other domains are visited and
\* the table is printed; a daemon access error, in either loop, ends the
\* listing with the QubesException that names the device class; any other
\* error ends it as it is.
C19_SkipNotFoundWrapAccess ==
    ListAllDone =>
        /\ (RaisedAt("QubesDaemonAccessError") = {} /\ RaisedAt("OSError") = {})
               => ListedAll
        /\ RaisedAt("QubesDaemonAccessError") # {} =>
               (dresult = Raised(ListException) /\ IsNone(printed))
        /\ RaisedAt("OSError") # {} =>
               (dresult = Raised(Exc("OSError", <<>>)) /\ IsNone(printed))

\* C19, corrected: in a listing over all domains, domains that are not
\* found are passed over in both loops, the other domains are visited and
\* the table is printed; a daemon access error ends the listing at the call
\* that raised it and nothing is printed: with the QubesException that
\* names the device class when it is raised while the exposed devices are
\* collected, as the QubesDaemonAccessError itself when it is raised while
\* the assignments are collected; any other error ends the listing as it
\* is.
C19_SkipNotFoundWrapAccessInFirstLoop ==
    ListAllDone =>
        /\ (RaisedAt("QubesDaemonAccessError") = {} /\ RaisedAt("OSError") = {})
               => ListedAll
        /\ \A i \in RaisedAt("QubesDaemonAccessError") :
               /\ i = Len(dlog) /\ IsNone(printed)
               /\ dlog[i].method = "get_exposed_devices" =>
                      dresult = Raised(ListException)
               /\ dlog[i].method = "get_dedicated_devices" =>
                      dresult = Raised(Exc("QubesDaemonAccessError", <<>>))
        /\ \A i \in RaisedAt("OSError") :
               /\ i = Len(dlog) /\ IsNone(printed)
               /\ dresult = Raised(Exc("OSError", <<>>))

\* the first domain was not found in the first loop, the domains after it
\* were visited, a domain was not found in the second loop, and the table
\* was printed with the device that was found
C19_Witness ==
    /\ ListAllDone /\ ~IsNone(printed) /\ Val(printed).rows # <<>>
    /\ \E i, j \in RaisedAt("QubesVMNotFoundError") :
           /\ dlog[i].method = "get_exposed_devices" /\ dlog[i].domain = 1
           /\ dlog[j].method = "get_dedicated_devices"
    /\ \A d \in AppDomains : ExposedVisited(d)

\* attach_device has ended
AttachDone == dpc = "done" /\ args.func = "attach_device"

\* the operations issued on the domain, in order
Issued == [i \in DOMAIN dlog |-> dlog[i].method]

\* every operation issued carried read-only=yes
SentReadOnly ==
    \A i \in DOMAIN dlog :
        LET options == Val(dlog[i].assignment).options
        IN ReadOnlyKey \in DOMAIN options /\ options[ReadOnlyKey] = Yes

\* attach first; assign after it, when the flag is set and attach returned
AttachThenAssign ==
    /\ Len(dlog) >= 1 /\ dlog[1].method = "attach"
    /\ ~args.required => Issued = <<"attach">>
    /\ (args.required /\ dlog[1].raised # "") => Issued = <<"attach">>
    /\ (args.required /\ dlog[1].raised = "") =>
           /\ Issued = <<"attach", "assign">>
           /\ Val(dlog[2].assignment).required
           /\ Val(dlog[2].assignment).options = Val(dlog[1].assignment).options
    /\ args.ro => SentReadOnly

\* C20 as stated: attach_device always issues attach first, and assign
\* only after it, only with the required flag and only when attach did not
\* raise; without the flag attach is the one operation issued; with --ro
\* the options sent carry read-only=yes whatever read-only option was
\* given.
C20_AttachThenAssign == AttachDone => AttachThenAssign

\* every text given with --option holds a '='
OptionsHaveEq ==
    \/ IsNone(args.option)
    \/ \A i \in DOMAIN Val(args.option) :
           \E k \in DOMAIN Val(args.option)[i] : Val(args.option)[i][k] = EQ

\* C20, corrected: when every --option has the form name=value,
\* attach_device issues attach first, and assign only after it, only with
\* the required flag and only when attach did not raise; without the flag
\* attach is the one operation issued; with --ro the options sent carry
\* read-only=yes whatever read-only option was given.  When an --option
\* holds no '=', attach_device raises ValueError and issues no operation.
C20_AttachThenAssignWhenOptionsParse ==
    AttachDone =>
        /\ OptionsHaveEq => AttachThenAssign
        /\ ~OptionsHaveEq =>
               (dlog = <<>> /\ dresult = Raised(Exc("ValueError", <<>>)))

\* --ro together with read-only=no and the required flag: attach and then
\* assign were issued, both with read-only=yes
C20_Witness ==
    /\ AttachDone /\ args.ro /\ args.required
    /\ args.option = Some(<<OptOther, OptReadOnlyNo>>)
    /\ Issued = <<"attach", "assign">>
    /\ SentReadOnly

\* main has returned, or an exception has left it
MainEnded == mpc \in {"returned", "raised"}

\* one of the two options that list the device classes is on the command
\* line
ListClassesGiven ==
    \E i \in 2..Len(sys_argv) :
        sys_argv[i] \in {Flag.list_device_classes, Flag.list_classes}

\* e is a QubesException: of that class, or of one of the two classes of
\* daemon errors, not-found and access-denied, which are kinds of it
IsQubesException(e) ==
    e.type \in {"QubesException", "QubesVMNotFoundError",
                "QubesDaemonAccessError"}

\* the subcommand main selected raised a QubesException
SubcommandRaisedQubesException ==
    /\ dpc = "done" /\ dresult.kind = "raise"
    /\ IsQubesException(dresult.exc)

\* without the options that list the classes: main returns 1 exactly when
\* the subcommand raised a QubesException, and has then printed its message;
\* it returns 0 exactly when the subcommand returned, and prints no error
ExitCodeOfSubcommand ==
    /\ (returned = Some(1)) <=> SubcommandRaisedQubesException
    /\ returned = Some(1) => error = Some(dresult.exc.args)
    /\ (returned = Some(0)) <=> (dpc = "done" /\ dresult.kind = "return")
    /\ returned # Some(1) => IsNone(error)

\* no argument was parsed and no subcommand was run
NothingRun ==
    /\ ~parse_called
    /\ dpc = "idle" /\ args = NoArgs /\ dlog = <<>>
    /\ IsNone(error)

\* C21 as stated: main returns 1 exactly when the subcommand raised a
\* QubesException, after printing the error, and returns 0 when the
\* subcommand returned; with --list-device-classes or --list-classes among
\* the arguments main prints the device classes and returns 0, and neither
\* parses the arguments nor runs a subcommand.
C21_MainExitCode ==
    MainEnded =>
        /\ ~ListClassesGiven => ExitCodeOfSubcommand
        /\ ListClassesGiven =>
               /\ NothingRun
               /\ classes = Some(DevClasses)
               /\ returned = Some(0)

\* C21, corrected: main returns 1 exactly when the subcommand raised a
\* QubesException, after printing the error, and returns 0 when the
\* subcommand returned; with --list-device-classes or --list-classes among
\* the arguments main neither parses the arguments nor runs a subcommand:
\* it prints the device classes and returns 0 when the daemon answers the
\* request for the classes, and when that request raises, the error leaves
\* main, which prints nothing and returns no exit code, even for a
\* QubesException.
C21_MainExitCodeUnlessListingRaises ==
    /\ (mpc # "idle" /\ ListClassesGiven) => NothingRun
    /\ MainEnded =>
        /\ ~ListClassesGiven => ExitCodeOfSubcommand
        /\ ListClassesGiven =>
               \/ /\ classes = Some(DevClasses)
                  /\ returned = Some(0)
                  /\ escaped = NoExc
               \/ /\ IsNone(classes)
                  /\ IsNone(returned)
                  /\ escaped.type \in DaemonErrors

\* list_devices raised the QubesException of the device class: main
\* printed its message and returned 1
C21_Witness ==
    /\ mpc = "returned" /\ returned = Some(1)
    /\ args.func = "list_devices"
    /\ error = Some(<<FailedToListFmt, args.devclass>>)

====
